---- MODULE Spec2Model ----
(***************************************************************************)
(* fnmap: the structural extractor (src/src/analyzer/index.ts) and the     *)
(* mermaid serializers (src/src/generator/mermaid.ts).                     *)
(*                                                                         *)
(* Strings are sequences of UTF-16 code units (naturals), so that          *)
(* `Class.method` concatenation, includes('.'), split('.') and the         *)
(* charCodeAt-based id derivation are computed as the code computes them.  *)
(* A syntax tree is a table of nodes in pre-order (the order in which      *)
(* @babel/traverse enters them); node 0 is the Program.  JSDoc             *)
(* descriptions are not part of the tree model.  analyzeFile advances by   *)
(* one visitor invocation per step; each serializer call is one step.      *)
(***************************************************************************)
EXTENDS Integers, Sequences, FiniteSets, TLC

VARIABLES
  ast,            \* the tree parser.parse returned for the file under analysis
  pc,             \* position of analyzeFile: which pass runs next
  importsMap,     \* Map<module, Set<member>>, insertion ordered
  localToModule,  \* Map<local alias, module>, insertion ordered
  usageMap,       \* Map<local alias, Set<enclosing callable>>
  callGraph,      \* Map<caller, Set<callee>>, insertion ordered
  cursor,         \* how many nodes the running traversal has handed to its visitors
  info,           \* the FileInfo under construction / returned
  gen,            \* which serializer call is modelled, with its arguments
  out             \* what the serializer returned

vars == <<ast, pc, importsMap, localToModule, usageMap, callGraph, cursor, info, gen, out>>

-----------------------------------------------------------------------------
(* Strings *)

NoName == <<>>                      \* undefined / null / '' (all falsy in JS)

sF == <<102>>                       \* "f"
sG == <<103>>                       \* "g"
sM == <<109>>                       \* "m"
sC == <<67>>                        \* "C"
sO == <<111>>                       \* "o"
sFs == <<102, 115>>                 \* "fs"
sDot == <<46>>                      \* "."
sRequire == <<114, 101, 113, 117, 105, 114, 101>>
sModule == <<109, 111, 100, 117, 108, 101>>
sExports == <<101, 120, 112, 111, 114, 116, 115>>
sAnonymous == <<91, 97, 110, 111, 110, 121, 109, 111, 117, 115, 93>>    \* "[anonymous]"
sDefault == <<91, 100, 101, 102, 97, 117, 108, 116, 93>>                \* "[default]"
sExportsTag == <<91, 101, 120, 112, 111, 114, 116, 115, 93>>            \* "[exports]"
sComputed == <<91, 99, 111, 109, 112, 117, 116, 101, 100, 93>>          \* "[computed]"
sImportDefault == <<100, 101, 102, 97, 117, 108, 116>>                  \* "default"
sStar == <<42>>                                                         \* "*"

\* String.prototype.includes(ch) for a one-unit needle
Includes(s, ch) == \E i \in 1..Len(s) : s[i] = ch

\* s.split('.')[0]
RECURSIVE SplitHead(_)
SplitHead(s) ==
  IF s = <<>> \/ Head(s) = sDot[1] THEN <<>> ELSE <<Head(s)>> \o SplitHead(Tail(s))

\* the n-th smallest element of a set of numbers
NthOf(S, n) == CHOOSE x \in S : Cardinality({y \in S : y < x}) = n - 1

\* the elements of a sequence
SeqSet(q) == {q[k] : k \in 1..Len(q)}

\* Array.prototype.includes
InSeq(x, s) == \E i \in 1..Len(s) : s[i] = x

\* Set.prototype.add on an insertion-ordered set
SetAdd(s, x) == IF InSeq(x, s) THEN s ELSE Append(s, x)

\* Map.prototype.has / get / set on an insertion-ordered map of [k, v] entries
MapHas(m, k) == \E i \in 1..Len(m) : m[i].k = k
MapGet(m, k) == m[CHOOSE i \in 1..Len(m) : m[i].k = k].v
MapSet(m, k, v) ==
  IF MapHas(m, k)
  THEN [i \in 1..Len(m) |-> IF m[i].k = k THEN [k |-> k, v |-> v] ELSE m[i]]
  ELSE Append(m, [k |-> k, v |-> v])

-----------------------------------------------------------------------------
(* Syntax trees *)

\* a node; parent is an index into the table, 0 = the Program node; kind holds
\* the node's kind, importKind or exportKind
Nd(type, role) ==
  [type |-> type, role |-> role, parent |-> 0, name |-> NoName, value |-> NoName,
   kind |-> "", static |-> FALSE, hasLoc |-> TRUE, line |-> 0, endLine |-> 0]

\* a forest whose single root is node n with the forest kids below it
Attach(n, kids) ==
  <<n>> \o [i \in 1..Len(kids) |->
              [kids[i] EXCEPT !.parent = IF @ = 0 THEN 1 ELSE @ + 1]]

\* two forests side by side
Join(a, b) ==
  a \o [i \in 1..Len(b) |->
          [b[i] EXCEPT !.parent = IF @ = 0 THEN 0 ELSE @ + Len(a)]]

RECURSIVE JoinAll(_)
JoinAll(fs) == IF fs = <<>> THEN <<>> ELSE Join(Head(fs), JoinAll(Tail(fs)))

\* the last node of the subtree rooted at i (pre-order: a contiguous range)
SubtreeEnd(tree, i) ==
  CHOOSE k \in i..Len(tree) :
    /\ \A j \in (i + 1)..k : tree[j].parent >= i
    /\ (k = Len(tree) \/ tree[k + 1].parent < i)

\* source positions as the parser supplies them: one node per line, a node
\* ends where its last descendant ends, so 1 <= start <= end
WithLocs(tree) ==
  [i \in 1..Len(tree) |->
     [tree[i] EXCEPT !.line = i, !.endLine = SubtreeEnd(tree, i)]]

TypeOf(tree, i) == IF i = 0 THEN "Program" ELSE tree[i].type
ParentOf(tree, i) == IF i = 0 THEN 0 ELSE tree[i].parent

\* node[key] for a list-valued key, as indices in source order
ChildSet(tree, i, role) ==
  {j \in 1..Len(tree) : tree[j].parent = i /\ tree[j].role = role}

Children(tree, i, role) ==
  LET S == ChildSet(tree, i, role)
  IN [k \in 1..Cardinality(S) |->
        CHOOSE j \in S : Cardinality({x \in S : x < j}) = k - 1]

\* node[key] for a single-valued key; 0 when the key is null
Child(tree, i, role) ==
  LET S == ChildSet(tree, i, role)
  IN IF i = 0 \/ S = {} THEN 0 ELSE CHOOSE j \in S : \A x \in S : j <= x

\* node[key]?.name when node[key] is an Identifier, else undefined
IdentName(tree, j) ==
  IF j # 0 /\ tree[j].type = "Identifier" THEN tree[j].name ELSE NoName

\* the nodes a traversal has visitors for, in the order it enters them
NodesOfType(tree, types) ==
  LET S == {j \in 1..Len(tree) : tree[j].type \in types}
  IN [k \in 1..Cardinality(S) |->
        CHOOSE j \in S : Cardinality({x \in S : x < j}) = k - 1]

StartLine(tree, i) == IF tree[i].hasLoc THEN tree[i].line ELSE 0
EndLine(tree, i) == IF tree[i].hasLoc THEN tree[i].endLine ELSE 0

-----------------------------------------------------------------------------
(* analyzeFile: helpers *)

\* getSuperClassName: an identifier, or the object of a one-level member
\* expression whose object and property are both identifiers
getSuperClassName(tree, sc) ==
  IF sc = 0 THEN NoName
  ELSE IF tree[sc].type = "Identifier" THEN tree[sc].name
  ELSE IF /\ tree[sc].type = "MemberExpression"
          /\ TypeOf(tree, Child(tree, sc, "object")) = "Identifier"
          /\ TypeOf(tree, Child(tree, sc, "property")) = "Identifier"
       THEN tree[Child(tree, sc, "object")].name
  ELSE NoName

\* `${a}.${b}`
Qualified(a, b) == a \o sDot \o b

\* getEnclosingFunctionName: climbs from the node itself to the root; NoName
\* stands for null and for '' (both are rejected by the callers' truth tests)
RECURSIVE getEnclosingFunctionName(_, _)
getEnclosingFunctionName(tree, cur) ==
  IF cur = 0 THEN NoName
  ELSE IF tree[cur].type = "FunctionDeclaration" /\ Child(tree, cur, "id") # 0
       THEN tree[Child(tree, cur, "id")].name
  ELSE IF tree[cur].type = "ClassMethod"
       THEN LET classNode == ParentOf(tree, ParentOf(tree, cur))
                className == IF classNode = 0 \/ Child(tree, classNode, "id") = 0
                             THEN NoName
                             ELSE tree[Child(tree, classNode, "id")].name
                methodName == tree[Child(tree, cur, "key")].name
            IN IF className # NoName THEN Qualified(className, methodName)
               ELSE methodName
  ELSE IF /\ tree[cur].type \in {"ArrowFunctionExpression", "FunctionExpression"}
          /\ TypeOf(tree, ParentOf(tree, cur)) = "VariableDeclarator"
          /\ tree[Child(tree, ParentOf(tree, cur), "id")].name # NoName
       THEN tree[Child(tree, ParentOf(tree, cur), "id")].name
  ELSE getEnclosingFunctionName(tree, ParentOf(tree, cur))

-----------------------------------------------------------------------------
(* analyzeFile, first traversal: import collection *)

\* the three maps the first traversal fills
ImportState(im, l2m, um) == [importsMap |-> im, localToModule |-> l2m, usageMap |-> um]

\* require('<string literal>')
IsRequireCall(tree, j) ==
  /\ j # 0
  /\ tree[j].type = "CallExpression"
  /\ IdentName(tree, Child(tree, j, "callee")) = sRequire
  /\ Children(tree, j, "arguments") # <<>>
  /\ tree[Children(tree, j, "arguments")[1]].type = "StringLiteral"

RequireModule(tree, j) == tree[Children(tree, j, "arguments")[1]].value

\* if (!importsMap.has(moduleName)) importsMap.set(moduleName, new Set())
EnsureModule(st, m) ==
  IF MapHas(st.importsMap, m) THEN st
  ELSE [st EXCEPT !.importsMap = MapSet(@, m, <<>>)]

\* importsMap.get(moduleName).add(member)
AddMember(st, m, member) ==
  [st EXCEPT !.importsMap = MapSet(@, m, SetAdd(MapGet(@, m), member))]

\* a binding that keeps the module an alias was first bound to
BindAliasFirstWins(st, localName, m) ==
  IF MapHas(st.localToModule, localName) THEN st
  ELSE [st EXCEPT !.localToModule = MapSet(@, localName, m),
                  !.usageMap = MapSet(@, localName, <<>>)]

\* localToModule.set(localName, moduleName); usageMap.set(localName, new Set())
BindAlias(st, localName, m) ==
  [st EXCEPT !.localToModule = MapSet(@, localName, m),
             !.usageMap = MapSet(@, localName, <<>>)]

\* const { a, b: c } = require('m')
RECURSIVE BindPattern(_, _, _, _)
BindPattern(tree, props, m, st) ==
  IF props = <<>> THEN st
  ELSE LET p == Head(props)
           key == Child(tree, p, "key")
           val == Child(tree, p, "value")
       IN IF tree[p].type = "ObjectProperty" /\ TypeOf(tree, key) = "Identifier"
          THEN LET localName == IF TypeOf(tree, val) = "Identifier"
                                THEN tree[val].name ELSE tree[key].name
               IN BindPattern(tree, Tail(props), m,
                              BindAlias(AddMember(st, m, tree[key].name), localName, m))
          ELSE BindPattern(tree, Tail(props), m, st)

\* visitor VariableDeclarator of the first traversal
ImportVariableDeclarator(tree, i, st) ==
  LET init == Child(tree, i, "init")
      id == Child(tree, i, "id")
  IN IF IsRequireCall(tree, init)
     THEN LET m == RequireModule(tree, init)
              st1 == EnsureModule(st, m)
          IN IF TypeOf(tree, id) = "Identifier"
             THEN BindAlias(AddMember(st1, m, tree[id].name), tree[id].name, m)
             ELSE IF TypeOf(tree, id) = "ObjectPattern"
             THEN BindPattern(tree, Children(tree, id, "properties"), m, st1)
             ELSE st1
     ELSE st

\* visitor CallExpression of the first traversal: require('m').member
ImportCallExpression(tree, i, st) ==
  LET parent == ParentOf(tree, i)
      prop == Child(tree, parent, "property")
      grandParent == ParentOf(tree, parent)
  IN IF /\ IsRequireCall(tree, i)
        /\ TypeOf(tree, parent) = "MemberExpression"
        /\ TypeOf(tree, prop) = "Identifier"
     THEN LET m == RequireModule(tree, i)
              st1 == AddMember(EnsureModule(st, m), m, tree[prop].name)
          IN IF /\ TypeOf(tree, grandParent) = "VariableDeclarator"
                /\ TypeOf(tree, Child(tree, grandParent, "id")) = "Identifier"
             THEN BindAlias(st1, tree[Child(tree, grandParent, "id")].name, m)
             ELSE st1
     ELSE st

\* one import specifier
RECURSIVE BindSpecifiers(_, _, _, _)
BindSpecifiers(tree, specs, m, st) ==
  IF specs = <<>> THEN st
  ELSE LET sp == Head(specs)
           localName == tree[Child(tree, sp, "local")].name
           imported == Child(tree, sp, "imported")
           importedName ==
             IF tree[sp].type = "ImportDefaultSpecifier" THEN sImportDefault
             ELSE IF tree[sp].type = "ImportNamespaceSpecifier" THEN sStar
             ELSE IF tree[imported].type = "Identifier" THEN tree[imported].name
             ELSE tree[imported].value
       IN BindSpecifiers(tree, Tail(specs), m,
                         BindAlias(AddMember(st, m, importedName), localName, m))

\* visitor ImportDeclaration of the first traversal
ImportImportDeclaration(tree, i, st) ==
  LET m == tree[Child(tree, i, "source")].value
  IN BindSpecifiers(tree, Children(tree, i, "specifiers"), m, EnsureModule(st, m))

ImportVisit(tree, i, st) ==
  IF tree[i].type = "VariableDeclarator" THEN ImportVariableDeclarator(tree, i, st)
  ELSE IF tree[i].type = "CallExpression" THEN ImportCallExpression(tree, i, st)
  ELSE IF tree[i].type = "ImportDeclaration" THEN ImportImportDeclaration(tree, i, st)
  ELSE st

ImportVisitors == {"VariableDeclarator", "CallExpression", "ImportDeclaration"}

-----------------------------------------------------------------------------
(* analyzeFile, second traversal: functions, classes, constants, alias usage *)

sQuestion == <<63>>                 \* "?"
sEllipsis == <<46, 46, 46>>         \* "..."
sComma == <<44>>                    \* ","

\* Array.prototype.join(',')
RECURSIVE JoinComma(_)
JoinComma(parts) ==
  IF parts = <<>> THEN <<>>
  ELSE IF Len(parts) = 1 THEN parts[1]
  ELSE parts[1] \o sComma \o JoinComma(Tail(parts))

\* the parameter mapping used for functions, arrows and object methods
FunctionParam(tree, p) ==
  IF tree[p].type = "Identifier" THEN tree[p].name
  ELSE IF /\ tree[p].type = "AssignmentPattern"
          /\ TypeOf(tree, Child(tree, p, "left")) = "Identifier"
       THEN tree[Child(tree, p, "left")].name \o sQuestion
  ELSE IF /\ tree[p].type = "RestElement"
          /\ TypeOf(tree, Child(tree, p, "argument")) = "Identifier"
       THEN sEllipsis \o tree[Child(tree, p, "argument")].name
  ELSE sQuestion

\* the parameter mapping used for class methods (no rest-element case)
MethodParam(tree, p) ==
  IF tree[p].type = "Identifier" THEN tree[p].name
  ELSE IF /\ tree[p].type = "AssignmentPattern"
          /\ TypeOf(tree, Child(tree, p, "left")) = "Identifier"
       THEN tree[Child(tree, p, "left")].name \o sQuestion
  ELSE sQuestion

FunctionParams(tree, fn) ==
  LET ps == Children(tree, fn, "params")
  IN JoinComma([k \in 1..Len(ps) |-> FunctionParam(tree, ps[k])])

MethodParams(tree, fn) ==
  LET ps == Children(tree, fn, "params")
  IN JoinComma([k \in 1..Len(ps) |-> MethodParam(tree, ps[k])])

\* a FunctionInfo whose two line numbers are taken from the wrong ends
FunctionRecordSwapped(tree, name, fn, at) ==
  [name |-> name, params |-> FunctionParams(tree, fn),
   startLine |-> EndLine(tree, at), endLine |-> StartLine(tree, at)]

\* a FunctionInfo: parameters of node fn, lines of node at
FunctionRecord(tree, name, fn, at) ==
  [name |-> name, params |-> FunctionParams(tree, fn),
   startLine |-> StartLine(tree, at), endLine |-> EndLine(tree, at)]

\* a MethodInfo for class member mb
MethodRecord(tree, mb) ==
  [name |-> IF TypeOf(tree, Child(tree, mb, "key")) = "Identifier"
            THEN tree[Child(tree, mb, "key")].name ELSE sComputed,
   params |-> MethodParams(tree, mb),
   line |-> StartLine(tree, mb),
   static |-> tree[mb].static,
   kind |-> tree[mb].kind]

\* the methods of class node cls: the ClassMethod members of its body
RECURSIVE MethodRecords(_, _)
MethodRecords(tree, members) ==
  IF members = <<>> THEN <<>>
  ELSE (IF tree[Head(members)].type = "ClassMethod"
        THEN <<MethodRecord(tree, Head(members))>> ELSE <<>>)
         \o MethodRecords(tree, Tail(members))

ClassMethods(tree, cls) ==
  MethodRecords(tree, Children(tree, Child(tree, cls, "body"), "body"))

\* a ClassInfo: members of node cls, lines of node at
ClassRecord(tree, name, superClass, cls, at) ==
  [name |-> name, superClass |-> superClass,
   startLine |-> StartLine(tree, at), endLine |-> EndLine(tree, at),
   methods |-> ClassMethods(tree, cls)]

PushFunction(st, rec) == [st EXCEPT !.info.functions = Append(@, rec)]
PushClass(st, rec) == [st EXCEPT !.info.classes = Append(@, rec)]
PushConstant(st, rec) == [st EXCEPT !.info.constants = Append(@, rec)]

\* node?.id?.name ?? fallback
IdNameOr(tree, i, fallback) ==
  IF Child(tree, i, "id") = 0 THEN fallback ELSE tree[Child(tree, i, "id")].name

IsFunctionExpr(tree, j) ==
  TypeOf(tree, j) \in {"ArrowFunctionExpression", "FunctionExpression"}

\* visitor Identifier: record the enclosing callable as a user of the alias
VisitIdentifier(tree, i, st) ==
  LET name == tree[i].name
      parent == ParentOf(tree, i)
      enclosing == getEnclosingFunctionName(tree, i)
  IN IF ~MapHas(st.usageMap, name) THEN st
     ELSE IF TypeOf(tree, parent) = "VariableDeclarator" /\ Child(tree, parent, "id") = i
     THEN st
     ELSE IF TypeOf(tree, parent) \in {"ImportSpecifier", "ImportDefaultSpecifier"}
     THEN st
     ELSE IF enclosing # NoName
     THEN [st EXCEPT !.usageMap = MapSet(@, name, SetAdd(MapGet(@, name), enclosing))]
     ELSE st

\* visitor FunctionDeclaration
VisitFunctionDeclaration(tree, i, st) ==
  IF TypeOf(tree, ParentOf(tree, i)) = "ExportDefaultDeclaration" THEN st
  ELSE PushFunction(st, FunctionRecord(tree, IdNameOr(tree, i, sAnonymous), i, i))

\* visitor ClassDeclaration
VisitClassDeclaration(tree, i, st) ==
  IF TypeOf(tree, ParentOf(tree, i)) = "ExportDefaultDeclaration" THEN st
  ELSE PushClass(st, ClassRecord(tree, IdNameOr(tree, i, sAnonymous),
                                 getSuperClassName(tree, Child(tree, i, "superClass")), i, i))

\* the function-valued properties of an object literal bound to name
RECURSIVE ObjectFunctions(_, _, _, _)
ObjectFunctions(tree, name, props, st) ==
  IF props = <<>> THEN st
  ELSE LET p == Head(props)
           key == Child(tree, p, "key")
           val == Child(tree, p, "value")
       IN IF tree[p].type = "ObjectMethod"
          THEN ObjectFunctions(tree, name, Tail(props),
                 PushFunction(st, FunctionRecord(tree,
                   IF TypeOf(tree, key) = "Identifier"
                   THEN Qualified(name, tree[key].name) ELSE Qualified(name, sComputed),
                   p, p)))
          ELSE IF /\ tree[p].type = "ObjectProperty"
                  /\ TypeOf(tree, key) = "Identifier"
                  /\ IsFunctionExpr(tree, val)
          THEN ObjectFunctions(tree, name, Tail(props),
                 PushFunction(st, FunctionRecord(tree, Qualified(name, tree[key].name), val, p)))
          ELSE ObjectFunctions(tree, name, Tail(props), st)

\* one declarator of a top-level or exported variable declaration
VisitDeclarator(tree, node, decl, st) ==
  LET id == Child(tree, decl, "id")
      init == Child(tree, decl, "init")
      name == tree[id].name
      isRequireCall == /\ TypeOf(tree, init) = "CallExpression"
                       /\ IdentName(tree, Child(tree, init, "callee")) = sRequire
      st1 == IF TypeOf(tree, init) = "ObjectExpression"
             THEN ObjectFunctions(tree, name, Children(tree, init, "properties"), st)
             ELSE st
  IN IF TypeOf(tree, id) # "Identifier" THEN st
     ELSE IF IsFunctionExpr(tree, init)
     THEN PushFunction(st, FunctionRecord(tree, name, init, node))
     ELSE IF TypeOf(tree, init) = "ClassExpression"
     THEN PushClass(st, ClassRecord(tree, name,
                      getSuperClassName(tree, Child(tree, init, "superClass")), init, node))
     ELSE IF tree[node].kind = "const" /\ ~isRequireCall
     THEN PushConstant(st1, [name |-> name, line |-> StartLine(tree, node)])
     ELSE st1

RECURSIVE VisitDeclarators(_, _, _, _)
VisitDeclarators(tree, node, decls, st) ==
  IF decls = <<>> THEN st
  ELSE VisitDeclarators(tree, node, Tail(decls), VisitDeclarator(tree, node, Head(decls), st))

\* visitor VariableDeclaration
VisitVariableDeclaration(tree, i, st) ==
  IF TypeOf(tree, ParentOf(tree, i)) \notin {"Program", "ExportNamedDeclaration"} THEN st
  ELSE VisitDeclarators(tree, i, Children(tree, i, "declarations"), st)

\* visitor ExportDefaultDeclaration
VisitExportDefaultDeclaration(tree, i, st) ==
  LET decl == Child(tree, i, "declaration")
  IN IF tree[decl].type = "FunctionDeclaration"
     THEN PushFunction(st, FunctionRecord(tree, IdNameOr(tree, decl, sDefault), decl, i))
     ELSE IF tree[decl].type = "ClassDeclaration"
     THEN PushClass(st, ClassRecord(tree, IdNameOr(tree, decl, sDefault),
                      getSuperClassName(tree, Child(tree, decl, "superClass")), decl, i))
     ELSE IF IsFunctionExpr(tree, decl)
     THEN PushFunction(st, FunctionRecord(tree,
            IF tree[decl].type = "FunctionExpression"
            THEN IdNameOr(tree, decl, sDefault) ELSE sDefault, decl, i))
     ELSE IF tree[decl].type = "ClassExpression"
     THEN PushClass(st, ClassRecord(tree, IdNameOr(tree, decl, sDefault),
                      IdentName(tree, Child(tree, decl, "superClass")), decl, i))
     ELSE st

\* left is module.exports
IsModuleExports(tree, j) ==
  /\ TypeOf(tree, j) = "MemberExpression"
  /\ IdentName(tree, Child(tree, j, "object")) = sModule
  /\ IdentName(tree, Child(tree, j, "property")) = sExports

\* visitor AssignmentExpression: CommonJS exports at top level
VisitAssignmentExpression(tree, i, st) ==
  LET left == Child(tree, i, "left")
      right == Child(tree, i, "right")
      isExports == \/ IdentName(tree, Child(tree, left, "object")) = sExports
                   \/ IsModuleExports(tree, Child(tree, left, "object"))
  IN IF TypeOf(tree, ParentOf(tree, i)) # "ExpressionStatement" THEN st
     ELSE IF TypeOf(tree, ParentOf(tree, ParentOf(tree, i))) # "Program" THEN st
     ELSE IF IsModuleExports(tree, left) /\ IsFunctionExpr(tree, right)
     THEN PushFunction(st, FunctionRecord(tree,
            IF tree[right].type = "FunctionExpression"
            THEN IdNameOr(tree, right, sExportsTag) ELSE sExportsTag, right, i))
     ELSE IF IsModuleExports(tree, left) /\ tree[right].type = "ClassExpression"
     THEN PushClass(st, ClassRecord(tree, IdNameOr(tree, right, sExportsTag),
                      getSuperClassName(tree, Child(tree, right, "superClass")), right, i))
     ELSE IF /\ TypeOf(tree, left) = "MemberExpression"
             /\ TypeOf(tree, Child(tree, left, "property")) = "Identifier"
             /\ isExports
             /\ IsFunctionExpr(tree, right)
     THEN PushFunction(st, FunctionRecord(tree,
            tree[Child(tree, left, "property")].name, right, i))
     ELSE st

ExtractVisit(tree, i, st) ==
  IF tree[i].type = "Identifier" THEN VisitIdentifier(tree, i, st)
  ELSE IF tree[i].type = "FunctionDeclaration" THEN VisitFunctionDeclaration(tree, i, st)
  ELSE IF tree[i].type = "ClassDeclaration" THEN VisitClassDeclaration(tree, i, st)
  ELSE IF tree[i].type = "VariableDeclaration" THEN VisitVariableDeclaration(tree, i, st)
  ELSE IF tree[i].type = "ExportDefaultDeclaration"
       THEN VisitExportDefaultDeclaration(tree, i, st)
  ELSE IF tree[i].type = "AssignmentExpression" THEN VisitAssignmentExpression(tree, i, st)
  ELSE st

ExtractVisitors ==
  {"Identifier", "FunctionDeclaration", "ClassDeclaration", "VariableDeclaration",
   "ExportDefaultDeclaration", "AssignmentExpression"}

RECURSIVE SetAddAll(_, _)
SetAddAll(s, xs) == IF xs = <<>> THEN s ELSE SetAddAll(SetAdd(s, Head(xs)), Tail(xs))

\* the callables using any local alias bound to module m
RECURSIVE UsedIn(_, _, _, _, _)
UsedIn(l2m, um, m, k, acc) ==
  IF k > Len(l2m) THEN acc
  ELSE IF l2m[k].v = m /\ MapHas(um, l2m[k].k)
  THEN UsedIn(l2m, um, m, k + 1, SetAddAll(acc, MapGet(um, l2m[k].k)))
  ELSE UsedIn(l2m, um, m, k + 1, acc)

\* the import conversion that follows the second traversal
ConvertImports(im, l2m, um) ==
  [k \in 1..Len(im) |->
     [module |-> im[k].k, members |-> im[k].v, usedIn |-> UsedIn(l2m, um, im[k].k, 1, <<>>)]]

-----------------------------------------------------------------------------
(* analyzeFile, third traversal: the call graph *)

\* definedFunctions: function names, method names and Class.method names
MethodNames(cls) ==
  UNION {{cls.methods[k].name, Qualified(cls.name, cls.methods[k].name)} :
           k \in 1..Len(cls.methods)}

DefinedFunctions(inf) ==
  {inf.functions[k].name : k \in 1..Len(inf.functions)}
    \cup UNION {MethodNames(inf.classes[c]) : c \in 1..Len(inf.classes)}

\* importedNames: the keys of localToModule
ImportedNames(l2m) == {l2m[k].k : k \in 1..Len(l2m)}

\* the callee name of call node i, NoName when the callee shape is not recognised
CalleeName(tree, i, imported) ==
  LET callee == Child(tree, i, "callee")
      objName == IdentName(tree, Child(tree, callee, "object"))
      prop == Child(tree, callee, "property")
  IN IF TypeOf(tree, callee) = "Identifier" THEN tree[callee].name
     ELSE IF TypeOf(tree, callee) = "MemberExpression" /\ TypeOf(tree, prop) = "Identifier"
     THEN IF objName # NoName /\ objName \in imported
          THEN Qualified(objName, tree[prop].name)
          ELSE tree[prop].name
     ELSE NoName

\* isDefinedFunc alone: calls through import aliases forgotten
IsRecordableDefinedOnly(calleeName, defined, imported) ==
  calleeName \in defined

\* isDefinedFunc || isImportedFunc
IsRecordable(calleeName, defined, imported) ==
  \/ calleeName \in defined
  \/ calleeName \in imported
  \/ (Includes(calleeName, sDot[1]) /\ SplitHead(calleeName) \in imported)

\* the edge test without the check that a caller was found
AcceptsEdgeWithoutCaller(caller, calleeName, defined, imported) ==
  /\ calleeName # NoName
  /\ caller # calleeName
  /\ IsRecordable(calleeName, defined, imported)

\* the edge test without the comparison of caller and callee
AcceptsEdgeToSelf(caller, calleeName, defined, imported) ==
  /\ calleeName # NoName
  /\ caller # NoName
  /\ IsRecordable(calleeName, defined, imported)

\* the edge test of the CallExpression visitor
AcceptsEdge(caller, calleeName, defined, imported) ==
  /\ calleeName # NoName
  /\ caller # NoName
  /\ caller # calleeName
  /\ IsRecordable(calleeName, defined, imported)

\* the names bound by the identifiers in positions from..to of the tree
NamesBoundIn(tree, from, to) ==
  {tree[j].name : j \in {x \in from..to : /\ tree[x].type = "Identifier"
                                          /\ tree[x].role \in {"id", "key", "local"}}}

\* a call walk that knows only what is declared above the call
VisitCallKnowingEarlierOnly(tree, i, cg, defined, imported) ==
  LET seen == NamesBoundIn(tree, 1, i - 1)
      calleeName == CalleeName(tree, i, imported \cap seen)
      caller == getEnclosingFunctionName(tree, i)
  IN IF AcceptsEdge(caller, calleeName, defined \cap seen, imported \cap seen)
     THEN MapSet(cg, caller,
                 SetAdd(IF MapHas(cg, caller) THEN MapGet(cg, caller) ELSE <<>>, calleeName))
     ELSE cg

\* visitor CallExpression of the third traversal
VisitCall(tree, i, cg, defined, imported) ==
  LET calleeName == CalleeName(tree, i, imported)
      caller == getEnclosingFunctionName(tree, i)
  IN IF AcceptsEdge(caller, calleeName, defined, imported)
     THEN MapSet(cg, caller,
                 SetAdd(IF MapHas(cg, caller) THEN MapGet(cg, caller) ELSE <<>>, calleeName))
     ELSE cg

CallVisitors == {"CallExpression"}

\* info.callGraph[caller] = Array.from(callees), for every entry of the map
ConvertCallGraph(cg) ==
  [k \in 1..Len(cg) |-> [k |-> cg[k].k, v |-> [j \in 1..Len(cg[k].v) |-> cg[k].v[j]]]]

-----------------------------------------------------------------------------
(* analyzeFile, fourth traversal: exports; then the purity scan *)

sT == <<84>>                        \* "T"

\* an ExportInfo; localName NoName stands for undefined
ExportRecord(name, localName, line, kind) ==
  [name |-> name, localName |-> localName, line |-> line, kind |-> kind]

\* export { a, b as c }: one record per ExportSpecifier
ExportSpecifierRecords(tree, i, specs) ==
  LET S == {k \in 1..Len(specs) : tree[specs[k]].type = "ExportSpecifier"}
      nth(n) == specs[CHOOSE k \in S : Cardinality({x \in S : x < k}) = n - 1]
      exported(sp) == LET e == Child(tree, sp, "exported")
                      IN IF tree[e].type = "Identifier" THEN tree[e].name ELSE tree[e].value
      localName(sp) == tree[Child(tree, sp, "local")].name
  IN [n \in 1..Cardinality(S) |->
        ExportRecord(exported(nth(n)),
                     IF localName(nth(n)) # exported(nth(n)) THEN localName(nth(n)) ELSE NoName,
                     StartLine(tree, i),
                     IF tree[i].kind = "type" \/ tree[nth(n)].kind = "type"
                     THEN "type" ELSE "value")]

\* export function / class / const / type / interface: the records of the declaration
ExportDeclarationRecords(tree, i, decl) ==
  LET ds == Children(tree, decl, "declarations")
      ids == {k \in 1..Len(ds) : TypeOf(tree, Child(tree, ds[k], "id")) = "Identifier"}
      nth(n) == ds[CHOOSE k \in ids : Cardinality({x \in ids : x < k}) = n - 1]
      own(kind) == IF Child(tree, decl, "id") = 0 THEN <<>>
                   ELSE <<ExportRecord(tree[Child(tree, decl, "id")].name, NoName,
                                       StartLine(tree, i), kind)>>
  IN IF tree[decl].type \in {"FunctionDeclaration", "ClassDeclaration"} THEN own("value")
     ELSE IF tree[decl].type = "VariableDeclaration"
     THEN [n \in 1..Cardinality(ids) |->
             ExportRecord(tree[Child(tree, nth(n), "id")].name, NoName,
                          StartLine(tree, i), "value")]
     ELSE IF tree[decl].type \in {"TSTypeAliasDeclaration", "TSInterfaceDeclaration"}
     THEN own("type")
     ELSE <<>>

\* visitor ExportNamedDeclaration
VisitExportNamedDeclaration(tree, i, exports) ==
  LET specs == Children(tree, i, "specifiers")
      decl == Child(tree, i, "declaration")
  IN IF Len(specs) > 0 THEN exports \o ExportSpecifierRecords(tree, i, specs)
     ELSE IF decl # 0 THEN exports \o ExportDeclarationRecords(tree, i, decl)
     ELSE exports

\* visitor ExportDefaultDeclaration of the fourth traversal
VisitExportDefault(tree, i, exports) ==
  LET decl == Child(tree, i, "declaration")
      localName ==
        IF tree[decl].type \in {"FunctionDeclaration", "ClassDeclaration"}
        THEN IdNameOr(tree, decl, NoName)
        ELSE IF tree[decl].type = "Identifier" THEN tree[decl].name
        ELSE NoName
  IN Append(exports, ExportRecord(sImportDefault, localName, StartLine(tree, i), "default"))

ExportVisit(tree, i, exports) ==
  IF tree[i].type = "ExportNamedDeclaration" THEN VisitExportNamedDeclaration(tree, i, exports)
  ELSE VisitExportDefault(tree, i, exports)

ExportVisitors == {"ExportNamedDeclaration", "ExportDefaultDeclaration"}

\* the switch of isPureTypeFile for top-level statement i: hasRuntimeCode
HasRuntimeCode(tree, i) ==
  LET specs == Children(tree, i, "specifiers")
      decl == Child(tree, i, "declaration")
  IN IF tree[i].type \in {"TSTypeAliasDeclaration", "TSInterfaceDeclaration",
                           "TSEnumDeclaration"}
     THEN FALSE
     ELSE IF tree[i].type = "ImportDeclaration"
     THEN /\ tree[i].kind # "type"
          /\ \E k \in 1..Len(specs) :
               tree[specs[k]].type # "ImportSpecifier" \/ tree[specs[k]].kind # "type"
          /\ Len(specs) > 0
     ELSE IF tree[i].type = "ExportNamedDeclaration"
     THEN IF tree[i].kind = "type" THEN FALSE
          ELSE IF decl # 0
          THEN tree[decl].type \notin {"TSTypeAliasDeclaration", "TSInterfaceDeclaration"}
          ELSE /\ Len(specs) > 0
               /\ \E k \in 1..Len(specs) :
                    tree[specs[k]].type # "ExportSpecifier" \/ tree[specs[k]].kind # "type"
     ELSE IF tree[i].type = "ExportDefaultDeclaration" THEN TRUE
     ELSE IF tree[i].type = "ExportAllDeclaration" THEN tree[i].kind # "type"
     ELSE TRUE

\* isPureTypeFile: the scan of ast.program.body stops at the first runtime statement
isPureTypeFile(tree) ==
  ~\E i \in 1..Len(tree) : tree[i].parent = 0 /\ HasRuntimeCode(tree, i)

-----------------------------------------------------------------------------
(* Input trees: what parser.parse can return for small programs *)

MaxStmts == 2                       \* top-level statements per program

Ident(role, name) == <<[Nd("Identifier", role) EXCEPT !.name = name]>>
Str(role, value) == <<[Nd("StringLiteral", role) EXCEPT !.value = value]>>
Num(role) == <<Nd("NumericLiteral", role)>>
This(role) == <<Nd("ThisExpression", role)>>
Block(stmts) == Attach(Nd("BlockStatement", "body"), stmts)
ExprStmt(e) == Attach(Nd("ExpressionStatement", "body"), e)
Member(role, obj, prop) ==
  Attach(Nd("MemberExpression", role), Join(obj, Ident("property", prop)))
Call(role, callee, args) == Attach(Nd("CallExpression", role), Join(callee, args))
FunDecl(name, body) ==
  Attach(Nd("FunctionDeclaration", "body"), Join(Ident("id", name), Block(body)))
AnonFunDecl(role, body) == Attach(Nd("FunctionDeclaration", role), Block(body))
Arrow(role, body) == Attach(Nd("ArrowFunctionExpression", role), Block(body))
FunExpr(role, body) == Attach(Nd("FunctionExpression", role), Block(body))
VarDecl(kind, name, init) ==
  Attach([Nd("VariableDeclaration", "body") EXCEPT !.kind = kind],
         Attach(Nd("VariableDeclarator", "declarations"), Join(Ident("id", name), init)))
Method(name, body) ==
  Attach([Nd("ClassMethod", "body") EXCEPT !.kind = "method"],
         Join(Ident("key", name), Block(body)))
ClassDecl(name, methods) ==
  Attach(Nd("ClassDeclaration", "body"),
         Join(Ident("id", name), Attach(Nd("ClassBody", "body"), methods)))
ClassExpr(role, methods) ==
  Attach(Nd("ClassExpression", role), Attach(Nd("ClassBody", "body"), methods))
ObjMethod(name, body) ==
  Attach(Nd("ObjectMethod", "properties"), Join(Ident("key", name), Block(body)))
ObjExpr(role, props) == Attach(Nd("ObjectExpression", role), props)
Require(role, module) == Call(role, Ident("callee", sRequire), Str("arguments", module))
Assign(left, right) ==
  ExprStmt(Attach(Nd("AssignmentExpression", "expression"), Join(left, right)))
ExportDefault(decl) == Attach(Nd("ExportDefaultDeclaration", "body"), decl)
ImportDefault(local, module) ==
  Attach(Nd("ImportDeclaration", "body"),
         Join(Attach(Nd("ImportDefaultSpecifier", "specifiers"), Ident("local", local)),
              Str("source", module)))

\* call statements placed in callable bodies and at top level
CallF == ExprStmt(Call("expression", Ident("callee", sF), <<>>))            \* f();
CallG == ExprStmt(Call("expression", Ident("callee", sG), <<>>))            \* g();
CallFs == ExprStmt(Call("expression", Ident("callee", sFs), <<>>))          \* fs();
CallFsG ==                                                                  \* fs.g();
  ExprStmt(Call("expression", Member("callee", Ident("object", sFs), sG), <<>>))
CallThisM ==                                                                \* this.m();
  ExprStmt(Call("expression", Member("callee", This("object"), sM), <<>>))

\* top-level statements
Stmts ==
  \* function f() { call }, function g() { call }
  { FunDecl(sF, c) : c \in {CallF, CallG, CallFs, CallFsG, CallThisM} }
  \cup { FunDecl(sG, c) : c \in {CallF, CallG} }
  \* function f() { fs.g(); fs(); g(); }
  \cup { FunDecl(sF, Join(CallFsG, Join(CallFs, CallG))) }
  \* const f = () => { call }
  \cup { VarDecl("const", sF, Arrow("init", c)) : c \in {CallG, CallFsG} }
  \* class C { m() { call } }
  \cup { ClassDecl(sC, Method(sM, c)) : c \in {CallF, CallFs, CallThisM} }
  \* const C = class { m() { f() } }
  \cup { VarDecl("const", sC, ClassExpr("init", Method(sM, CallF))) }
  \* function f() { const g = () => { call } }
  \cup { FunDecl(sF, VarDecl("const", sG, Arrow("init", c))) : c \in {CallF, CallG} }
  \* function f() { function g() { f() } }
  \cup { FunDecl(sF, FunDecl(sG, CallF)) }
  \* calls at module top level
  \cup { CallF, CallFs, CallFsG }
  \* const o = { m() { f() } }
  \cup { VarDecl("const", sO, ObjExpr("init", ObjMethod(sM, CallF))) }
  \* const fs = require('fs'); import fs from 'fs'; let g = 1; const g = 1
  \cup { VarDecl("const", sFs, Require("init", sFs)),
         ImportDefault(sFs, sFs),
         VarDecl("let", sG, Num("init")),
         VarDecl("const", sG, Num("init")) }
  \* export default function () { g() }; export default function f() { g() }
  \cup { ExportDefault(AnonFunDecl("declaration", CallG)),
         ExportDefault(Attach(Nd("FunctionDeclaration", "declaration"),
                              Join(Ident("id", sF), Block(CallG)))) }
  \* module.exports = function () { f() }; exports.g = () => { f() }
  \cup { Assign(Member("left", Ident("object", sModule), sExports), FunExpr("right", CallF)),
         Assign(Member("left", Ident("object", sExports), sG), Arrow("right", CallF)) }

\* import / export statements with their kinds
ImportOf(kind, specs, module) ==
  Attach([Nd("ImportDeclaration", "body") EXCEPT !.kind = kind],
         Join(specs, Str("source", module)))
ImportSpec(kind, name) ==
  Attach([Nd("ImportSpecifier", "specifiers") EXCEPT !.kind = kind],
         Join(Ident("local", name), Ident("imported", name)))
ExportNamed(kind, content) ==
  Attach([Nd("ExportNamedDeclaration", "body") EXCEPT !.kind = kind], content)
ExportSpec(kind, local, exported) ==
  Attach([Nd("ExportSpecifier", "specifiers") EXCEPT !.kind = kind],
         Join(Ident("local", local), Ident("exported", exported)))
TypeDecl(type, role, name) == Attach(Nd(type, role), Ident("id", name))

\* top-level statements of TypeScript sources
TypeStmts ==
  \* type T = ...; interface T {}; enum T {}
  { TypeDecl(t, "body", sT) :
      t \in {"TSTypeAliasDeclaration", "TSInterfaceDeclaration", "TSEnumDeclaration"} }
  \* import type { T } from 'fs'; import { type T } from 'fs'; import { T } from 'fs'
  \cup { ImportOf("type", ImportSpec("", sT), sFs),
         ImportOf("value", ImportSpec("type", sT), sFs),
         ImportOf("value", ImportSpec("value", sT), sFs) }
  \* import 'fs'; import fs from 'fs'
  \cup { ImportOf("value", <<>>, sFs), ImportDefault(sFs, sFs) }
  \* export type { T }; export { type T }; export { f as g }
  \cup { ExportNamed("type", ExportSpec("", sT, sT)),
         ExportNamed("value", ExportSpec("type", sT, sT)),
         ExportNamed("value", ExportSpec("value", sF, sG)) }
  \* export type T = ...; export interface T {}
  \cup { ExportNamed("type", TypeDecl(t, "declaration", sT)) :
           t \in {"TSTypeAliasDeclaration", "TSInterfaceDeclaration"} }
  \* export declare const g: T
  \cup { ExportNamed("type",
           Attach([Nd("VariableDeclaration", "declaration") EXCEPT !.kind = "const"],
                  Attach(Nd("VariableDeclarator", "declarations"), Ident("id", sG)))) }
  \* export function f() { g(); }
  \cup { ExportNamed("value", Attach(Nd("FunctionDeclaration", "declaration"),
                                     Join(Ident("id", sF), Block(CallG)))) }
  \* export type * from 'fs'; export * from 'fs'
  \cup { Attach([Nd("ExportAllDeclaration", "body") EXCEPT !.kind = k], Str("source", sFs)) :
           k \in {"type", "value"} }
  \* export default function f() { g(); }; function g() { f(); }; f();
  \cup { ExportDefault(Attach(Nd("FunctionDeclaration", "declaration"),
                              Join(Ident("id", sF), Block(CallG)))),
         FunDecl(sG, CallF),
         CallF }

TypePrograms ==
  { WithLocs(JoinAll(p)) : p \in UNION { [1..n -> TypeStmts] : n \in 0..MaxStmts } }

Programs ==
  { WithLocs(JoinAll(p)) : p \in UNION { [1..n -> Stmts] : n \in 0..MaxStmts } }

\* parameters: g, g = 1, ...g, {} and ...[]
PIdent(name) == Ident("params", name)
PDefault(name) ==
  Attach(Nd("AssignmentPattern", "params"), Join(Ident("left", name), Num("right")))
PRest(name) == Attach(Nd("RestElement", "params"), Ident("argument", name))
PPattern == <<Nd("ObjectPattern", "params")>>
PRestPattern == Attach(Nd("RestElement", "params"), <<Nd("ArrayPattern", "argument")>>)

\* callables and classes with parameters and a superclass
FunDeclP(name, params) ==
  Attach(Nd("FunctionDeclaration", "body"), Join(Ident("id", name), Join(params, Block(<<>>))))
ArrowP(role, params) ==
  Attach(Nd("ArrowFunctionExpression", role), Join(params, Block(<<>>)))
MethodP(name, params) ==
  Attach([Nd("ClassMethod", "body") EXCEPT !.kind = "method"],
         Join(Ident("key", name), Join(params, Block(<<>>))))
ObjMethodP(name, params) ==
  Attach(Nd("ObjectMethod", "properties"), Join(Ident("key", name), Join(params, Block(<<>>))))
ClassBody(methods) == Attach(Nd("ClassBody", "body"), methods)
ClassDeclExt(role, name, super, methods) ==
  Attach(Nd("ClassDeclaration", role), Join(Ident("id", name), Join(super, ClassBody(methods))))
ClassExprExt(role, super, methods) ==
  Attach(Nd("ClassExpression", role), Join(super, ClassBody(methods)))
VarPattern(kind, init) ==
  Attach([Nd("VariableDeclaration", "body") EXCEPT !.kind = kind],
         Attach(Nd("VariableDeclarator", "declarations"),
                Join(<<Nd("ObjectPattern", "id")>>, init)))

\* superclass expressions: f, fs.g, fs.g.m and f()
SuperName == Ident("superClass", sF)
SuperDotted == Member("superClass", Ident("object", sFs), sG)
SuperDeep == Member("superClass", Member("object", Ident("object", sFs), sG), sM)
SuperCall == Call("superClass", Ident("callee", sF), <<>>)

\* top-level statements that declare callables, classes and variables
DeclStmts ==
  \* function f(g, fs = 1, ...m) {}; function f({}, ...[]) {}; function f() {}
  { FunDeclP(sF, Join(PIdent(sG), Join(PDefault(sFs), PRest(sM)))),
    FunDeclP(sF, Join(PPattern, PRestPattern)),
    FunDeclP(sF, <<>>) }
  \* const f = (g, ...fs) => {}; const o = { m(...g) {} }
  \cup { VarDecl("const", sF, ArrowP("init", Join(PIdent(sG), PRest(sFs)))),
         VarDecl("const", sO, ObjExpr("init", ObjMethodP(sM, PRest(sG)))) }
  \* class C { m(g, fs = 1) {} }; class C { m(...g) {} }; class C { m({}) {} }
  \cup { ClassDeclExt("body", sC, <<>>, MethodP(sM, ps)) :
           ps \in {Join(PIdent(sG), PDefault(sFs)), PRest(sG), PPattern} }
  \* class C extends f {}; ... extends fs.g {}; ... extends fs.g.m {}; ... extends f() {}
  \cup { ClassDeclExt("body", sC, sup, <<>>) :
           sup \in {SuperName, SuperDotted, SuperDeep, SuperCall} }
  \* const C = class extends fs.g { m(...g) {} }
  \cup { VarDecl("const", sC, ClassExprExt("init", SuperDotted, MethodP(sM, PRest(sG)))) }
  \* export default class extends fs.g {}; export default (class extends fs.g {})
  \cup { ExportDefault(Attach(Nd("ClassDeclaration", "declaration"),
                              Join(SuperDotted, ClassBody(<<>>)))),
         ExportDefault(ClassExprExt("declaration", SuperDotted, <<>>)) }
  \* module.exports = class extends fs.g {}
  \cup { Assign(Member("left", Ident("object", sModule), sExports),
                ClassExprExt("right", SuperDotted, <<>>)) }
  \* const g = 1; let g = 1; var g = 1; const o = {}; const {} = f
  \cup { VarDecl(k, sG, Num("init")) : k \in {"const", "let", "var"} }
  \cup { VarDecl("const", sO, ObjExpr("init", <<>>)),
         VarPattern("const", Ident("init", sF)) }
  \* const f = function () {}; const fs = require('fs'); const g = require('fs').m
  \cup { VarDecl("const", sF, FunExpr("init", <<>>)),
         VarDecl("const", sFs, Require("init", sFs)),
         VarDecl("const", sG,
                 Member("init", Require("object", sFs), sM)) }
  \* export const g = 1; function f() { const g = 1 }
  \cup { ExportNamed("value",
                     Attach([Nd("VariableDeclaration", "declaration") EXCEPT !.kind = "const"],
                            Attach(Nd("VariableDeclarator", "declarations"),
                                   Join(Ident("id", sG), Num("init"))))),
         FunDecl(sF, VarDecl("const", sG, Num("init"))) }

DeclPrograms ==
  { WithLocs(JoinAll(p)) : p \in UNION { [1..n -> DeclStmts] : n \in 0..MaxStmts } }

\* const { key: value } = require('module')
RequirePattern(key, value, module) ==
  Attach([Nd("VariableDeclaration", "body") EXCEPT !.kind = "const"],
         Attach(Nd("VariableDeclarator", "declarations"),
                Join(Attach(Nd("ObjectPattern", "id"),
                            Attach(Nd("ObjectProperty", "properties"),
                                   Join(Ident("key", key), Ident("value", value)))),
                     Require("init", module))))
ImportNamespace(local, module) ==
  Attach(Nd("ImportDeclaration", "body"),
         Join(Attach(Nd("ImportNamespaceSpecifier", "specifiers"), Ident("local", local)),
              Str("source", module)))

\* statements that load modules: the two modules are 'fs' and 'g'
LoadStmts ==
  \* import fs from 'fs'; import * as g from 'g'
  { ImportDefault(sFs, sFs), ImportNamespace(sG, sG) }
  \* import fs from 'fs'; import fs from 'g'
  \cup { Join(ImportDefault(sFs, sFs), ImportDefault(sFs, sG)) }
  \* import g from 'g'; import { m } from 'fs'; const fs = require('g')
  \cup { Join(ImportDefault(sG, sG),
              Join(ImportOf("value", ImportSpec("value", sM), sFs),
                   VarDecl("const", sFs, Require("init", sG)))) }
  \* const fs = require('fs'); const g = require('fs').m; const { m: g } = require('fs')
  \cup { VarDecl("const", sFs, Require("init", sFs)),
         VarDecl("const", sG, Member("init", Require("object", sFs), sM)),
         RequirePattern(sM, sG, sFs) }
  \* require('fs').m;
  \cup { ExprStmt(Member("expression", Require("object", sFs), sM)) }

\* statements that use the aliases fs, g and m
UseStmts ==
  \* function f() { fs() }; function g() { fs.g() }; fs(); class C { m() { fs() } }
  { FunDecl(sF, CallFs), FunDecl(sG, CallFsG), CallFs, ClassDecl(sC, Method(sM, CallFs)) }
  \* function f() { const fs = require('fs') }; function f() { const { g: fs } = require('fs') }
  \cup { FunDecl(sF, VarDecl("const", sFs, Require("init", sFs))),
         FunDecl(sF, RequirePattern(sG, sFs, sFs)) }

ImportPrograms ==
  { WithLocs(JoinAll(p)) :
      p \in UNION { [1..n -> LoadStmts \cup UseStmts] : n \in 0..MaxStmts } }

-----------------------------------------------------------------------------
(* analyzeFile as a state machine: one step per visitor invocation *)

\* isPureType is absent (here FALSE) until the purity scan has run
EmptyInfo ==
  [imports |-> <<>>, functions |-> <<>>, classes |-> <<>>, constants |-> <<>>,
   exports |-> <<>>, callGraph |-> <<>>, isPureType |-> FALSE]

Idle == [op |-> "none"]
NoOutput == [kind |-> "none"]

Init ==
  /\ ast \in Programs
  /\ pc = "collect"
  /\ importsMap = <<>>
  /\ localToModule = <<>>
  /\ usageMap = <<>>
  /\ callGraph = <<>>
  /\ cursor = 0
  /\ info = EmptyInfo
  /\ gen = Idle
  /\ out = NoOutput

\* first traversal: the next visit, or the end of the traversal
CollectImports ==
  /\ pc = "collect"
  /\ LET nodes == NodesOfType(ast, ImportVisitors)
     IN IF cursor < Len(nodes)
        THEN LET st == ImportVisit(ast, nodes[cursor + 1],
                                   ImportState(importsMap, localToModule, usageMap))
             IN /\ importsMap' = st.importsMap
                /\ localToModule' = st.localToModule
                /\ usageMap' = st.usageMap
                /\ cursor' = cursor + 1
                /\ pc' = pc
        ELSE /\ pc' = "extract"
             /\ cursor' = 0
             /\ UNCHANGED <<importsMap, localToModule, usageMap>>
  /\ UNCHANGED <<ast, callGraph, info, gen, out>>

\* second traversal: the next visit, or the import conversion that follows it
ExtractDeclarations ==
  /\ pc = "extract"
  /\ LET nodes == NodesOfType(ast, ExtractVisitors)
     IN IF cursor < Len(nodes)
        THEN LET st == ExtractVisit(ast, nodes[cursor + 1],
                                    [usageMap |-> usageMap, info |-> info])
             IN /\ usageMap' = st.usageMap
                /\ info' = st.info
                /\ cursor' = cursor + 1
                /\ pc' = pc
        ELSE /\ info' = [info EXCEPT
                           !.imports = ConvertImports(importsMap, localToModule, usageMap)]
             /\ pc' = "calls"
             /\ cursor' = 0
             /\ UNCHANGED usageMap
  /\ UNCHANGED <<ast, importsMap, localToModule, callGraph, gen, out>>

\* third traversal: the next visit, or the conversion of the call graph
BuildCallGraph ==
  /\ pc = "calls"
  /\ LET nodes == NodesOfType(ast, CallVisitors)
     IN IF cursor < Len(nodes)
        THEN /\ callGraph' = VisitCall(ast, nodes[cursor + 1], callGraph,
                                       DefinedFunctions(info), ImportedNames(localToModule))
             /\ cursor' = cursor + 1
             /\ UNCHANGED <<pc, info>>
        ELSE /\ info' = [info EXCEPT !.callGraph = ConvertCallGraph(callGraph)]
             /\ pc' = "exports"
             /\ cursor' = 0
             /\ UNCHANGED callGraph
  /\ UNCHANGED <<ast, importsMap, localToModule, usageMap, gen, out>>

\* fourth traversal: the next visit, or the purity scan and the return
CollectExports ==
  /\ pc = "exports"
  /\ LET nodes == NodesOfType(ast, ExportVisitors)
     IN IF cursor < Len(nodes)
        THEN /\ info' = [info EXCEPT !.exports = ExportVisit(ast, nodes[cursor + 1], @)]
             /\ cursor' = cursor + 1
             /\ pc' = pc
        ELSE /\ info' = [info EXCEPT !.isPureType = isPureTypeFile(ast)]
             /\ pc' = "done"
             /\ UNCHANGED cursor
  /\ UNCHANGED <<ast, importsMap, localToModule, usageMap, callGraph, gen, out>>

Next == CollectImports \/ ExtractDeclarations \/ BuildCallGraph \/ CollectExports

Spec == Init /\ [][Next]_vars

\* formatError: the parts that are joined by "\n  "; NoLoc stands for an
\* error without loc
NoLoc == [line |-> -1, column |-> -1]
formatError(message, file, loc, suggestion) ==
  <<message>>
    \o (IF file # NoName THEN <<<<"File: ", file>>>> ELSE <<>>)
    \o (IF loc # NoLoc THEN <<<<"Location: Line ", loc.line, ", Column ", loc.column>>>>
        ELSE <<>>)
    \o (IF suggestion # "" THEN <<<<"Suggestion: ", suggestion>>>> ELSE <<>>)

\* a failure that also carries the empty record lists of a Module
ParseFailurePartial(err, filePath) ==
  [parseError |-> formatError(<<"Syntax error: ", err.message>>, filePath, err.loc,
                              "Check syntax errors in the file"),
   loc |-> err.loc, errorType |-> "PARSE_ERROR",
   imports |-> <<>>, functions |-> <<>>, classes |-> <<>>, constants |-> <<>>,
   callGraph |-> <<>>]

\* what the catch block of the parse returns
ParseFailure(err, filePath) ==
  [parseError |-> formatError(<<"Syntax error: ", err.message>>, filePath, err.loc,
                              "Check syntax errors in the file"),
   loc |-> err.loc, errorType |-> "PARSE_ERROR"]

\* the checks and the parse that precede the traversals
ParseSource ==
  /\ pc = "parse"
  /\ IF gen.code.kind \in {"null", "notString"}
     THEN /\ out' = [parseError |-> IF gen.code.kind = "null"
                                    THEN <<"Code content is null or undefined">>
                                    ELSE <<"Code must be a string">>,
                     errorType |-> "VALIDATION_ERROR"]
          /\ pc' = "failed"
          /\ UNCHANGED <<ast, info>>
     ELSE IF gen.code.kind = "blank"
     THEN /\ pc' = "done"
          /\ UNCHANGED <<ast, info, out>>
     ELSE IF gen.code.kind = "rejected"
     THEN /\ out' = ParseFailure(gen.code.error, gen.filePath)
          /\ pc' = "failed"
          /\ UNCHANGED <<ast, info>>
     ELSE /\ ast' = gen.code.tree
          /\ pc' = "collect"
          /\ UNCHANGED <<info, out>>
  /\ UNCHANGED <<importsMap, localToModule, usageMap, callGraph, cursor, gen>>

\* the code argument by what the checks and the parser make of it
Codes ==
  {[kind |-> k] : k \in {"null", "notString", "blank"}}
    \cup {[kind |-> "rejected", error |-> [message |-> m, loc |-> l]] :
            m \in {"", "Unexpected token"},
            l \in {NoLoc, [line |-> 1, column |-> 0], [line |-> 2, column |-> 15]}}
    \cup {[kind |-> "accepted", tree |-> WithLocs(t)] : t \in Stmts \cup TypeStmts}

InitAnalyze ==
  /\ ast = <<>>
  /\ pc = "parse"
  /\ importsMap = <<>>
  /\ localToModule = <<>>
  /\ usageMap = <<>>
  /\ callGraph = <<>>
  /\ cursor = 0
  /\ info = EmptyInfo
  /\ gen \in {[op |-> "analyze", code |-> c, filePath |-> f] :
               c \in Codes, f \in {NoName, <<97, 46, 106, 115>>}}
  /\ out = NoOutput

SpecAnalyze == InitAnalyze /\ [][ParseSource \/ Next]_vars

\* processFile: validation, read, analysis
MAX_FILE_SIZE == 10485760           \* 10 * 1024 * 1024

\* stats.size > MAX_FILE_SIZE, and the comparison that also rejects the limit
TooLargeInclusive(size) == size >= MAX_FILE_SIZE
TooLarge(size) == size > MAX_FILE_SIZE

\* validateFilePath. The argument is null, undefined or '' ("missing"), another
\* non-string, or a path; the file system holds nothing at the path, an entry
\* whose stat fails, a directory, or a regular file
validateFilePath(arg, file) ==
  IF arg.kind # "path"
  THEN [valid |-> FALSE, error |-> <<"File path is required and must be a string">>,
        errorType |-> "VALIDATION_ERROR"]
  ELSE IF file.kind = "absent"
  THEN [valid |-> FALSE, error |-> <<"File not found: ", arg.path>>,
        errorType |-> "FILE_NOT_FOUND"]
  ELSE IF file.kind = "statFails"
  THEN [valid |-> FALSE, error |-> <<"Cannot access file: ", arg.path, file.message>>,
        errorType |-> "PERMISSION_ERROR"]
  ELSE IF file.kind # "regular"
  THEN [valid |-> FALSE, error |-> <<"Path is not a file: ", arg.path>>,
        errorType |-> "VALIDATION_ERROR"]
  ELSE IF TooLarge(file.size)
  THEN [valid |-> FALSE, error |-> <<"File too large: ", file.size, arg.path>>,
        errorType |-> "FILE_TOO_LARGE"]
  ELSE [valid |-> TRUE]

\* the calls that can throw and sit inside a try block: statSync in
\* validateFilePath, readFileSync and analyzeFile in processFile
InTry == {"statSync", "readFileSync", "analyzeFile"}

\* the calls of this run that throw: stat of an inaccessible entry, read of an
\* unreadable file
Throwing ==
  (IF gen.arg.kind = "path" /\ gen.file.kind = "statFails" THEN {"statSync"} ELSE {})
    \cup (IF validateFilePath(gen.arg, gen.file).valid /\ ~gen.file.readable
          THEN {"readFileSync"} ELSE {})

\* processFile up to the call of analyzeFile
ValidateAndRead ==
  /\ pc = "process"
  /\ LET validation == validateFilePath(gen.arg, gen.file)
     IN IF ~(Throwing \subseteq InTry)
        THEN /\ pc' = "thrown"
             /\ UNCHANGED out
        ELSE IF ~validation.valid
        THEN /\ out' = [success |-> FALSE, error |-> validation.error,
                        errorType |-> validation.errorType]
             /\ pc' = "returned"
        ELSE IF ~gen.file.readable
        THEN /\ out' = [success |-> FALSE,
                        error |-> formatError(<<"Failed to read or process file">>,
                                              gen.filePath, NoLoc, "EACCES"),
                        errorType |-> "FILE_READ_ERROR"]
             /\ pc' = "returned"
        ELSE /\ pc' = "parse"
             /\ UNCHANGED out
  /\ UNCHANGED <<ast, importsMap, localToModule, usageMap, callGraph, cursor, info, gen>>

\* processFile after analyzeFile has returned
WrapResult ==
  /\ gen.op = "process"
  /\ pc \in {"done", "failed"}
  /\ out' = IF pc = "failed"
            THEN [success |-> FALSE, error |-> out.parseError,
                  errorType |-> out.errorType, loc |-> out.loc]
            ELSE [success |-> TRUE, info |-> info]
  /\ pc' = "returned"
  /\ UNCHANGED <<ast, importsMap, localToModule, usageMap, callGraph, cursor, info, gen>>

FileSizes == {0, MAX_FILE_SIZE - 1, MAX_FILE_SIZE, MAX_FILE_SIZE + 1}

\* what readFileSync(path, 'utf-8') yields is a string
FileContents == {c \in Codes : c.kind \notin {"null", "notString"}}

PathStates ==
  {[kind |-> "absent"], [kind |-> "statFails", message |-> "ENOENT"]}
    \cup {[kind |-> "directory", size |-> n] : n \in {4096, MAX_FILE_SIZE + 1}}
    \cup {[kind |-> "regular", size |-> n, readable |-> r] : n \in FileSizes, r \in BOOLEAN}

InitProcess ==
  /\ ast = <<>>
  /\ pc = "process"
  /\ importsMap = <<>>
  /\ localToModule = <<>>
  /\ usageMap = <<>>
  /\ callGraph = <<>>
  /\ cursor = 0
  /\ info = EmptyInfo
  /\ gen \in {[op |-> "process", arg |-> [kind |-> k], file |-> [kind |-> "absent"],
                code |-> [kind |-> "blank"], filePath |-> NoName] :
                 k \in {"missing", "notString"}}
          \cup {[op |-> "process", arg |-> [kind |-> "path", path |-> <<97, 46, 106, 115>>],
                 file |-> f, code |-> c, filePath |-> <<97, 46, 106, 115>>] :
                   f \in PathStates, c \in FileContents}
  /\ out = NoOutput

SpecProcess == InitProcess /\ [][ValidateAndRead \/ ParseSource \/ Next \/ WrapResult]_vars

\* main: the processing loop over filesToProcess
MaxBatch == 3

\* "a.js", "b.ts", "c.js"
BatchPaths == {<<97, 46, 106, 115>>, <<98, 46, 116, 115>>, <<99, 46, 106, 115>>}

\* what processFile returns for a file, by what the file holds
ProcessResults ==
  {[success |-> TRUE, info |-> [EmptyInfo EXCEPT !.isPureType = b]] : b \in BOOLEAN}
    \cup {[success |-> FALSE, error |-> <<"error">>, errorType |-> t] :
            t \in {"PARSE_ERROR", "FILE_TOO_LARGE"}}

\* [...new Set(filesToProcess)]: first occurrences, in order
RECURSIVE Deduplicated(_, _)
Deduplicated(files, seen) ==
  IF files = <<>> THEN seen
  ELSE Deduplicated(Tail(files), SetAdd(seen, Head(files)))

\* a loop that stops at the first failing file
IndexAfterAbort(i, n, result) == IF result.success THEN i + 1 ELSE n

\* the loop index after the iteration on file i of n: continue and the end of
\* the body both go to the next file
IndexAfter(i, n, result) == i + 1

\* the checks before the loop: nothing to do, or the list without duplicates
StartBatch ==
  /\ pc = "start"
  /\ IF Len(gen.filesToProcess) = 0
     THEN /\ pc' = "exit"
          /\ UNCHANGED gen
     ELSE /\ gen' = [gen EXCEPT !.filesToProcess = Deduplicated(@, <<>>)]
          /\ pc' = "loop"
  /\ UNCHANGED <<ast, importsMap, localToModule, usageMap, callGraph, cursor, info, out>>

\* one iteration of the loop, or its end
ProcessNextFile ==
  /\ pc = "loop"
  /\ IF cursor < Len(gen.filesToProcess)
     THEN LET filePath == gen.filesToProcess[cursor + 1]
              result == gen.results[filePath]
          IN /\ out' = [out EXCEPT
                          !.analyzed = Append(@, filePath),
                          !.processed = IF result.success THEN @ + 1 ELSE @,
                          !.failed = IF result.success THEN @ ELSE @ + 1,
                          !.dirFiles = IF result.success /\ ~result.info.isPureType
                                       THEN Append(@, filePath) ELSE @]
             /\ cursor' = IndexAfter(cursor, Len(gen.filesToProcess), result)
             /\ pc' = pc
     ELSE /\ pc' = "generate"
          /\ UNCHANGED <<cursor, out>>
  /\ UNCHANGED <<ast, importsMap, localToModule, usageMap, callGraph, info, gen>>

InitBatch ==
  /\ ast = <<>>
  /\ pc = "start"
  /\ importsMap = <<>>
  /\ localToModule = <<>>
  /\ usageMap = <<>>
  /\ callGraph = <<>>
  /\ cursor = 0
  /\ info = EmptyInfo
  /\ gen \in {[op |-> "batch", filesToProcess |-> fs, results |-> rs] :
               fs \in UNION {[1..n -> BatchPaths] : n \in 0..MaxBatch},
               rs \in [BatchPaths -> ProcessResults]}
  /\ out = [kind |-> "batch", analyzed |-> <<>>, processed |-> 0, failed |-> 0,
            dirFiles |-> <<>>]

\* the loop has no blocking step: each iteration is taken
SpecBatch ==
  InitBatch /\ [][StartBatch \/ ProcessNextFile]_vars /\ WF_vars(StartBatch \/ ProcessNextFile)

\* successive invocations of analyzeFile
MaxInvocations == 3

\* import fs from 'fs'; function f() { fs.g(); fs(); g(); }
\* function g() { f() }   class C { m() { f() } }   const g = 1
SessionCodes ==
  { WithLocs(Join(ImportDefault(sFs, sFs), FunDecl(sF, Join(CallFsG, Join(CallFs, CallG))))),
    WithLocs(FunDecl(sG, CallF)),
    WithLocs(ClassDecl(sC, Method(sM, CallF))),
    WithLocs(VarDecl("const", sG, Num("init"))) }

\* the locals an invocation would find if they outlived the previous one
KeptState(st) == st

\* the locals of an invocation: info and the maps are created by the call
FreshState(st) ==
  [importsMap |-> <<>>, localToModule |-> <<>>, usageMap |-> <<>>, callGraph |-> <<>>,
   info |-> EmptyInfo]

\* analyzeFile returns its Module; the caller invokes it on the next code
ReturnAndInvoke ==
  /\ pc = "done"
  /\ gen.op = "session"
  /\ out' = [out EXCEPT !.results = Append(@, info)]
  /\ IF gen.at < Len(gen.codes)
     THEN LET st == FreshState([importsMap |-> importsMap, localToModule |-> localToModule,
                                usageMap |-> usageMap, callGraph |-> callGraph,
                                info |-> info])
          IN /\ gen' = [gen EXCEPT !.at = @ + 1]
             /\ ast' = gen.codes[gen.at + 1]
             /\ pc' = "collect"
             /\ cursor' = 0
             /\ importsMap' = st.importsMap
             /\ localToModule' = st.localToModule
             /\ usageMap' = st.usageMap
             /\ callGraph' = st.callGraph
             /\ info' = st.info
     ELSE /\ pc' = "finished"
          /\ UNCHANGED <<ast, importsMap, localToModule, usageMap, callGraph, cursor, info, gen>>

InitSession ==
  /\ gen \in {[op |-> "session", codes |-> cs, at |-> 1] :
               cs \in UNION {[1..n -> SessionCodes] : n \in 2..MaxInvocations}}
  /\ ast = gen.codes[1]
  /\ pc = "collect"
  /\ importsMap = <<>>
  /\ localToModule = <<>>
  /\ usageMap = <<>>
  /\ callGraph = <<>>
  /\ cursor = 0
  /\ info = EmptyInfo
  /\ out = [kind |-> "results", results |-> <<>>]

SpecSession == InitSession /\ [][Next \/ ReturnAndInvoke]_vars

\* analyzeFile on TypeScript sources
InitTyped ==
  /\ ast \in TypePrograms
  /\ pc = "collect"
  /\ importsMap = <<>>
  /\ localToModule = <<>>
  /\ usageMap = <<>>
  /\ callGraph = <<>>
  /\ cursor = 0
  /\ info = EmptyInfo
  /\ gen = Idle
  /\ out = NoOutput

SpecTyped == InitTyped /\ [][Next]_vars

\* analyzeFile on the declaration forms
InitDeclarations ==
  /\ ast \in DeclPrograms
  /\ pc = "collect"
  /\ importsMap = <<>>
  /\ localToModule = <<>>
  /\ usageMap = <<>>
  /\ callGraph = <<>>
  /\ cursor = 0
  /\ info = EmptyInfo
  /\ gen = Idle
  /\ out = NoOutput

SpecDeclarations == InitDeclarations /\ [][Next]_vars

\* analyzeFile on the module-loading forms
InitImports ==
  /\ ast \in ImportPrograms
  /\ pc = "collect"
  /\ importsMap = <<>>
  /\ localToModule = <<>>
  /\ usageMap = <<>>
  /\ callGraph = <<>>
  /\ cursor = 0
  /\ info = EmptyInfo
  /\ gen = Idle
  /\ out = NoOutput

SpecImports == InitImports /\ [][Next]_vars

-----------------------------------------------------------------------------
(* Properties of the Module analyzeFile returns *)

Returned == pc = "done"

\* the (caller, callee) pairs of a call graph
Edges(cg) ==
  UNION {{<<cg[k].k, cg[k].v[j]>> : j \in 1..Len(cg[k].v)} : k \in 1..Len(cg)}

Callers(cg) == {cg[k].k : k \in 1..Len(cg)}

FunctionNames(inf) == {inf.functions[k].name : k \in 1..Len(inf.functions)}

\* `Class.method` for every class record and each of its method records
ClassMethodNames(inf) ==
  UNION {{Qualified(inf.classes[c].name, inf.classes[c].methods[k].name) :
            k \in 1..Len(inf.classes[c].methods)} : c \in 1..Len(inf.classes)}

\* the declared-symbol set: function names, method names, Class.method names
DeclaredSymbols(inf) ==
  FunctionNames(inf) \cup ClassMethodNames(inf)
    \cup UNION {{inf.classes[c].methods[k].name : k \in 1..Len(inf.classes[c].methods)} :
                  c \in 1..Len(inf.classes)}

LocalAliases == {localToModule[k].k : k \in 1..Len(localToModule)}

CallSites == {i \in 1..Len(ast) : ast[i].type = "CallExpression"}

RECURSIVE AncestorsOrSelf(_, _)
AncestorsOrSelf(tree, i) ==
  IF i = 0 THEN {} ELSE {i} \cup AncestorsOrSelf(tree, tree[i].parent)

\* a named function declaration, a class method, or a function/arrow
\* expression bound to a variable
IsCallableNode(tree, a) ==
  \/ tree[a].type = "FunctionDeclaration" /\ ChildSet(tree, a, "id") # {}
  \/ tree[a].type = "ClassMethod"
  \/ /\ tree[a].type \in {"ArrowFunctionExpression", "FunctionExpression"}
     /\ tree[a].parent # 0
     /\ tree[tree[a].parent].type = "VariableDeclarator"

AtTopLevel(tree, i) == \A a \in AncestorsOrSelf(tree, i) : ~IsCallableNode(tree, a)

\* the callee name the call walk resolves for call site i
Resolved(i) == CalleeName(ast, i, LocalAliases)
Enclosing(i) == getEnclosingFunctionName(ast, i)

\* `alias.member` for a local import alias
IsAliasQualified(n) ==
  \E a \in LocalAliases : Len(n) > Len(a) + 1 /\ SubSeq(n, 1, Len(a) + 1) = a \o sDot

\* C1: every caller key of the returned call graph is the name of a function
\* record or `Class.method` of a class record and one of its method records.
C1_CallersAreDeclared ==
  Returned => Callers(info.callGraph) \subseteq FunctionNames(info) \cup ClassMethodNames(info)

\* C2: a call expression at module top level never contributes an edge: every
\* edge of the returned call graph has a call site inside a callable that
\* resolves to its callee.
C2_TopLevelCallsAddNoEdge ==
  Returned =>
    \A e \in Edges(info.callGraph) :
      \E i \in CallSites :
        ~AtTopLevel(ast, i) /\ Enclosing(i) = e[1] /\ Resolved(i) = e[2]

\* a top-level call to a declared callable was traversed
C2_Witness ==
  /\ Returned
  /\ \E i \in CallSites : AtTopLevel(ast, i) /\ Resolved(i) \in DeclaredSymbols(info)
  /\ info.callGraph # <<>>

\* C3 as stated: an edge exists iff a call inside the caller resolves to a
\* different name that is a declared symbol or `alias.member`.
C3_EdgeIffDeclaredOrQualified ==
  Returned =>
    /\ \A e \in Edges(info.callGraph) :
         /\ e[1] # e[2]
         /\ e[2] \in DeclaredSymbols(info) \/ IsAliasQualified(e[2])
         /\ \E i \in CallSites : Enclosing(i) = e[1] /\ Resolved(i) = e[2]
    /\ \A i \in CallSites :
         ( /\ Enclosing(i) # NoName
           /\ Resolved(i) # NoName
           /\ Resolved(i) # Enclosing(i)
           /\ Resolved(i) \in DeclaredSymbols(info) \/ IsAliasQualified(Resolved(i)) )
         => <<Enclosing(i), Resolved(i)>> \in Edges(info.callGraph)

\* C3 amended: ... a declared symbol, `alias.member`, or a bare local import
\* alias; no callee outside these three groups is recorded.
C3_EdgeIffDeclaredOrImported ==
  Returned =>
    /\ \A e \in Edges(info.callGraph) :
         /\ e[1] # e[2]
         /\ \/ e[2] \in DeclaredSymbols(info)
            \/ IsAliasQualified(e[2])
            \/ e[2] \in LocalAliases
         /\ \E i \in CallSites : Enclosing(i) = e[1] /\ Resolved(i) = e[2]
    /\ \A i \in CallSites :
         ( /\ Enclosing(i) # NoName
           /\ Resolved(i) # NoName
           /\ Resolved(i) # Enclosing(i)
           /\ \/ Resolved(i) \in DeclaredSymbols(info)
              \/ IsAliasQualified(Resolved(i))
              \/ Resolved(i) \in LocalAliases )
         => <<Enclosing(i), Resolved(i)>> \in Edges(info.callGraph)

\* an `alias.member` edge and a bare-alias edge were recorded, and a call to an
\* undeclared callee inside a callable was dropped
C3_Witness ==
  /\ Returned
  /\ \E e \in Edges(info.callGraph) : IsAliasQualified(e[2])
  /\ \E e \in Edges(info.callGraph) : e[2] \in LocalAliases
  /\ \E i \in CallSites :
       /\ Enclosing(i) # NoName
       /\ Resolved(i) # NoName
       /\ <<Enclosing(i), Resolved(i)>> \notin Edges(info.callGraph)

\* the name a callee is looked up by: the alias of `alias.member`, else itself
LookupName(n) == IF IsAliasQualified(n) THEN SplitHead(n) ELSE n

\* the callee of call site i is declared only below the call
DeclaredLaterOnly(i) ==
  /\ LookupName(Resolved(i)) \in NamesBoundIn(ast, i + 1, Len(ast))
  /\ LookupName(Resolved(i)) \notin NamesBoundIn(ast, 1, i - 1)
  /\ \/ Resolved(i) \in DeclaredSymbols(info)
     \/ LookupName(Resolved(i)) \in LocalAliases

\* C26: a call inside a callable to a function, method or import alias that
\* is declared later in the file than the call site is recorded as an edge,
\* as it is when the declaration comes first
C26_LaterDeclarationsRecorded ==
  Returned =>
    \A i \in CallSites :
      ( /\ Enclosing(i) # NoName
        /\ Resolved(i) # NoName
        /\ Resolved(i) # Enclosing(i)
        /\ DeclaredLaterOnly(i) )
      => <<Enclosing(i), Resolved(i)>> \in Edges(info.callGraph)

\* two functions that call each other: the first calls the second before it
\* is declared, and both edges are there
C26_Witness ==
  /\ Returned
  /\ \E i \in CallSites :
       /\ Enclosing(i) # NoName
       /\ DeclaredLaterOnly(i)
       /\ <<Enclosing(i), Resolved(i)>> \in Edges(info.callGraph)
       /\ <<Resolved(i), Enclosing(i)>> \in Edges(info.callGraph)

\* C4: no caller key is among its own callees.
C4_NoSelfEdge ==
  Returned => \A e \in Edges(info.callGraph) : e[1] # e[2]

\* a declared callable calls itself by name, and its key exists
C4_Witness ==
  /\ Returned
  /\ \E i \in CallSites :
       /\ Enclosing(i) # NoName
       /\ Enclosing(i) = Resolved(i)
       /\ Resolved(i) \in DeclaredSymbols(info)
       /\ Enclosing(i) \in Callers(info.callGraph)

\* C5: no two function records share a name and no two class records share a name.
C5_UniqueNames ==
  Returned =>
    /\ \A a, b \in 1..Len(info.functions) :
         info.functions[a].name = info.functions[b].name => a = b
    /\ \A a, b \in 1..Len(info.classes) :
         info.classes[a].name = info.classes[b].name => a = b

\* C6: every function record and class record has 0 <= startLine <= endLine.
C6_LinesOrdered ==
  Returned =>
    /\ \A k \in 1..Len(info.functions) :
         /\ info.functions[k].startLine >= 0
         /\ info.functions[k].endLine >= 0
         /\ info.functions[k].startLine <= info.functions[k].endLine
    /\ \A k \in 1..Len(info.classes) :
         /\ info.classes[k].startLine >= 0
         /\ info.classes[k].endLine >= 0
         /\ info.classes[k].startLine <= info.classes[k].endLine

\* a multi-line function record and a multi-line class record were returned
C6_Witness ==
  /\ Returned
  /\ \E k \in 1..Len(info.functions) :
       info.functions[k].startLine < info.functions[k].endLine
  /\ \E k \in 1..Len(info.classes) :
       info.classes[k].startLine < info.classes[k].endLine

-----------------------------------------------------------------------------
(* generator/mermaid.ts *)

sIdPrefix == <<105, 100, 95>>                                   \* "id_"
sUnderscore == <<95>>                                           \* "_"
sQuot == <<35, 113, 117, 111, 116, 59>>                         \* "#quot;"
sFlowchart == <<102, 108, 111, 119, 99, 104, 97, 114, 116, 32, 84, 68>>   \* "flowchart TD"
sArrow == <<45, 45, 62>>                                        \* "-->"

\* [a-zA-Z0-9]
IsAlnum(c) == c \in (48..57) \cup (65..90) \cup (97..122)

\* the decimal digits of a char code, as code units
RECURSIVE Decimal(_)
Decimal(n) == IF n < 10 THEN <<48 + n>> ELSE Decimal(n \div 10) \o <<48 + (n % 10)>>

\* the older id derivation: every non-alphanumeric unit collapsed to "_"
RECURSIVE safeIdCollapsing(_)
safeIdCollapsing(name) ==
  IF name = <<>> THEN <<>>
  ELSE (IF IsAlnum(Head(name)) \/ Head(name) = sUnderscore[1]
        THEN <<Head(name)>> ELSE sUnderscore) \o safeIdCollapsing(Tail(name))

\* name.replace(/[^a-zA-Z0-9]/g, (c) => `_${c.charCodeAt(0)}_`)
RECURSIVE EncodeUnits(_)
EncodeUnits(name) ==
  IF name = <<>> THEN <<>>
  ELSE (IF IsAlnum(Head(name)) THEN <<Head(name)>>
        ELSE sUnderscore \o Decimal(Head(name)) \o sUnderscore) \o EncodeUnits(Tail(name))

safeId(name) == sIdPrefix \o EncodeUnits(name)

\* a label written as it is, quotes included
escapeLabelRaw(text) == text

\* text.replace(/"/g, '#quot;')
RECURSIVE escapeLabel(_)
escapeLabel(text) ==
  IF text = <<>> THEN <<>>
  ELSE (IF Head(text) = 34 THEN sQuot ELSE <<Head(text)>>) \o escapeLabel(Tail(text))

\* path.basename(p) (posix): the last segment, trailing slashes dropped
RECURSIVE StripTrailingSlashes(_)
StripTrailingSlashes(p) ==
  IF Len(p) > 0 /\ p[Len(p)] = 47 THEN StripTrailingSlashes(SubSeq(p, 1, Len(p) - 1)) ELSE p

PathBasename(p) ==
  LET q == StripTrailingSlashes(p)
      slashes == {i \in 1..Len(q) : q[i] = 47}
      last == IF slashes = {} THEN 0 ELSE CHOOSE i \in slashes : \A j \in slashes : j <= i
  IN SubSeq(q, last + 1, Len(q))

\* path.extname(p) (posix): from the last dot of the basename; '' when there is
\* no dot, when the dot starts the basename, or when the basename is ".."
PathExtname(p) ==
  LET b == PathBasename(p)
      dots == {i \in 1..Len(b) : b[i] = 46}
      startDot == IF dots = {} THEN 0 ELSE CHOOSE i \in dots : \A j \in dots : j <= i
  IN IF startDot <= 1 \/ b = <<46, 46>> THEN <<>> ELSE SubSeq(b, startDot, Len(b))

\* path.basename(p, path.extname(p))
FileStem(p) ==
  LET b == PathBasename(p)
  IN SubSeq(b, 1, Len(b) - Len(PathExtname(p)))

RECURSIVE Flatten(_)
Flatten(ss) == IF ss = <<>> THEN <<>> ELSE Head(ss) \o Flatten(Tail(ss))

\* functions only: the class methods forgotten
FunctionsOnly(inf) == [k \in 1..Len(inf.functions) |-> inf.functions[k].name]

\* [...functions, ...classMethods]
AllFunctions(inf) ==
  [k \in 1..Len(inf.functions) |-> inf.functions[k].name]
    \o Flatten([c \in 1..Len(inf.classes) |->
                  [k \in 1..Len(inf.classes[c].methods) |->
                     Qualified(inf.classes[c].name, inf.classes[c].methods[k].name)]])

\* String.prototype.endsWith
EndsWith(s, suffix) ==
  Len(suffix) <= Len(s) /\ SubSeq(s, Len(s) - Len(suffix) + 1, Len(s)) = suffix

\* callee.split('.').pop()
LastSegment(s) ==
  LET dots == {i \in 1..Len(s) : s[i] = 46}
      last == IF dots = {} THEN 0 ELSE CHOOSE i \in dots : \A j \in dots : j <= i
  IN SubSeq(s, last + 1, Len(s))

HeaderLine == [t |-> "header", id |-> <<>>, label |-> <<>>, to |-> <<>>]
EndLine_ == [t |-> "end", id |-> <<>>, label |-> <<>>, to |-> <<>>]
SubgraphLine(id, label) == [t |-> "subgraph", id |-> id, label |-> label, to |-> <<>>]
NodeLine(id, label) == [t |-> "node", id |-> id, label |-> label, to |-> <<>>]
EdgeLine(from, to) == [t |-> "edge", id |-> from, label |-> <<>>, to |-> to]

\* the edge test of generateFileMermaid
FileEdgeShown(all, callee) ==
  /\ InSeq(callee, all) \/ Includes(callee, 46)
  /\ \/ InSeq(callee, all)
     \/ \E k \in 1..Len(all) : EndsWith(all[k], LastSegment(callee))

FileEdgeLines(cg, all) ==
  Flatten([k \in 1..Len(cg) |->
             Flatten([j \in 1..Len(cg[k].v) |->
                        IF FileEdgeShown(all, cg[k].v[j])
                        THEN <<EdgeLine(safeId(cg[k].k), safeId(cg[k].v[j]))>>
                        ELSE <<>>])])

\* one line of the diagram text
LineText(l) ==
  IF l.t = "header" THEN sFlowchart
  ELSE IF l.t = "subgraph"
       THEN <<32, 32, 115, 117, 98, 103, 114, 97, 112, 104, 32>> \o l.id
              \o <<91, 34>> \o l.label \o <<34, 93>>
  ELSE IF l.t = "node"
       THEN <<32, 32, 32, 32>> \o l.id \o <<91, 34>> \o l.label \o <<34, 93>>
  ELSE IF l.t = "end" THEN <<32, 32, 101, 110, 100>>
  ELSE <<32, 32>> \o l.id \o <<32>> \o sArrow \o <<32>> \o l.to

\* lines.join('\n')
RECURSIVE JoinLines(_)
JoinLines(ls) ==
  IF ls = <<>> THEN <<>>
  ELSE IF Len(ls) = 1 THEN LineText(ls[1])
  ELSE LineText(ls[1]) \o <<10>> \o JoinLines(Tail(ls))

Null == [kind |-> "null"]
Lines(ls) == [kind |-> "lines", lines |-> ls, text |-> JoinLines(ls)]

\* generateFileMermaid(fileName, info): Null, or the joined text with its lines
generateFileMermaid(fileName, inf) ==
  LET all == AllFunctions(inf)
      baseName == FileStem(fileName)
  IN IF Len(all) = 0 THEN Null
     ELSE Lines(<<HeaderLine, SubgraphLine(safeId(baseName), baseName)>>
                  \o [k \in 1..Len(all) |-> NodeLine(safeId(all[k]), escapeLabel(all[k]))]
                  \o <<EndLine_>>
                  \o FileEdgeLines(inf.callGraph, all))

\* `${safeId(fileName)}_${safeId(name)}`
ProjectNodeId(fileName, name) == safeId(fileName) \o sUnderscore \o safeId(name)

\* fileToFunctions: Map<relativePath, {fileName, functions}>
RECURSIVE FileToFunctions(_, _)
FileToFunctions(files, m) ==
  IF files = <<>> THEN m
  ELSE FileToFunctions(Tail(files),
         MapSet(m, Head(files).relativePath,
                [fileName |-> FileStem(Head(files).relativePath),
                 functions |-> AllFunctions(Head(files).info)]))

\* allCallEdges, in input order
AllCallEdges(files) ==
  Flatten([f \in 1..Len(files) |->
    Flatten([k \in 1..Len(files[f].info.callGraph) |->
      [j \in 1..Len(files[f].info.callGraph[k].v) |->
         [fileName |-> FileStem(files[f].relativePath),
          caller |-> files[f].info.callGraph[k].k,
          callee |-> files[f].info.callGraph[k].v[j]]]])])

\* one cluster per map entry that has functions
ClusterLines(f2f) ==
  Flatten([e \in 1..Len(f2f) |->
    IF Len(f2f[e].v.functions) = 0 THEN <<>>
    ELSE <<SubgraphLine(safeId(f2f[e].v.fileName), escapeLabel(f2f[e].v.fileName))>>
           \o [k \in 1..Len(f2f[e].v.functions) |->
                 NodeLine(ProjectNodeId(f2f[e].v.fileName, f2f[e].v.functions[k]),
                          escapeLabel(f2f[e].v.functions[k]))]
           \o <<EndLine_>>])

\* a callee lookup that falls back to the caller's own file without a check
CalleeIdUnchecked(f2f, fileName, callee) ==
  LET hits == {e \in 1..Len(f2f) : InSeq(callee, f2f[e].v.functions)}
  IN IF hits # {}
     THEN ProjectNodeId(f2f[CHOOSE e \in hits : \A x \in hits : e <= x].v.fileName, callee)
     ELSE ProjectNodeId(fileName, callee)

\* the id of the node the callee resolves to, NoName (null) when it resolves to none
CalleeId(f2f, fileName, callee) ==
  LET hits == {e \in 1..Len(f2f) : InSeq(callee, f2f[e].v.functions)}
      same == {e \in 1..Len(f2f) : f2f[e].v.fileName = fileName}
      matchingKey == IF same = {} THEN 0 ELSE CHOOSE e \in same : \A x \in same : e <= x
  IN IF hits # {}
     THEN ProjectNodeId(f2f[CHOOSE e \in hits : \A x \in hits : e <= x].v.fileName, callee)
     ELSE IF matchingKey # 0 /\ InSeq(callee, f2f[matchingKey].v.functions)
     THEN ProjectNodeId(fileName, callee)
     ELSE NoName

\* the edge loop with its addedEdges set
RECURSIVE ProjectEdgeLines(_, _, _)
ProjectEdgeLines(edges, f2f, added) ==
  IF edges = <<>> THEN <<>>
  ELSE LET e == Head(edges)
           callerId == ProjectNodeId(e.fileName, e.caller)
           calleeId == CalleeId(f2f, e.fileName, e.callee)
           edgeKey == callerId \o sArrow \o calleeId
       IN IF calleeId # NoName /\ edgeKey \notin added
          THEN <<EdgeLine(callerId, calleeId)>>
                 \o ProjectEdgeLines(Tail(edges), f2f, added \cup {edgeKey})
          ELSE ProjectEdgeLines(Tail(edges), f2f, added)

\* generateProjectMermaid(projectDir, allFilesInfo): the joined text with its lines
generateProjectMermaid(files) ==
  LET f2f == FileToFunctions(files, <<>>)
  IN Lines(<<HeaderLine>> \o ClusterLines(f2f)
             \o ProjectEdgeLines(AllCallEdges(files), f2f, {}))

-----------------------------------------------------------------------------
(* generateAiMap: the directory index *)

sArrowTo == <<32, 8594>>            \* " →"
sGetMark == <<103, 101, 116, 58>>   \* "get:"
sSetMark == <<115, 101, 116, 58>>   \* "set:"
sDefaultTag == <<100, 101, 102, 97, 117, 108, 116>>   \* "default"
sTypeTag == <<116, 121, 112, 101, 58>>                \* "type:"
sFnmap == <<64, 70, 78, 77, 65, 80>>                  \* "@FNMAP"
FileDescriptionLength == 50         \* info.description.slice(0, 50)

\* rec.description, '' when the record has none
Description(rec) == IF "description" \in DOMAIN rec THEN rec.description ELSE <<>>

\* s.slice(0, n)
SliceTo(s, n) == SubSeq(s, 1, IF Len(s) < n THEN Len(s) ELSE n)

\* ` ${description}` when the description is not empty
DescriptionSuffix(rec) ==
  IF Description(rec) # <<>> THEN <<32>> \o Description(rec) ELSE <<>>

\* info.callGraph?.[key]; <<>> also stands for undefined, which is written
\* like an empty list
CallsOf(inf, key) ==
  IF MapHas(inf.callGraph, key) THEN MapGet(inf.callGraph, key) ELSE <<>>

\* ` →${calls.join(',')}` when calls is a non-empty array
CallsSuffix(calls) ==
  IF Len(calls) > 0 THEN sArrowTo \o JoinComma(calls) ELSE <<>>

\* info.callGraph?.[methodKey] ?? info.callGraph?.[method.name]
MethodCalls(inf, cls, method) ==
  IF MapHas(inf.callGraph, Qualified(cls.name, method.name))
  THEN MapGet(inf.callGraph, Qualified(cls.name, method.name))
  ELSE CallsOf(inf, method.name)

fileLine(entry) ==
  <<35>> \o PathBasename(entry.relativePath)
    \o (IF Description(entry.info) # <<>>
        THEN <<32>> \o SliceTo(Description(entry.info), FileDescriptionLength) ELSE <<>>)

importLine(imp) == <<32, 32, 60>> \o imp.module \o <<58>> \o JoinComma(imp.members)

clsLine(cls) ==
  <<32, 32>> \o cls.name
    \o (IF cls.superClass # NoName THEN <<58>> \o cls.superClass ELSE <<>>)
    \o <<32>> \o Decimal(cls.startLine) \o <<45>> \o Decimal(cls.endLine)
    \o DescriptionSuffix(cls)

methodLine(inf, cls, method) ==
  (IF method.static THEN <<32, 32, 32, 32, 43>> ELSE <<32, 32, 32, 32, 46>>)
    \o (IF method.kind = "get" THEN sGetMark
        ELSE IF method.kind = "set" THEN sSetMark ELSE <<>>)
    \o method.name \o <<40>> \o method.params \o <<41, 32>> \o Decimal(method.line)
    \o DescriptionSuffix(method)
    \o CallsSuffix(MethodCalls(inf, cls, method))

fnLine(inf, fn) ==
  <<32, 32>> \o fn.name \o <<40>> \o fn.params \o <<41, 32>>
    \o Decimal(fn.startLine) \o <<45>> \o Decimal(fn.endLine)
    \o DescriptionSuffix(fn)
    \o CallsSuffix(CallsOf(inf, fn.name))

constLine(c) == <<32, 32>> \o c.name \o <<32>> \o Decimal(c.line) \o DescriptionSuffix(c)

exportName(exp) ==
  IF exp.kind = "default"
  THEN (IF exp.localName # NoName THEN sDefaultTag \o <<58>> \o exp.localName
        ELSE sDefaultTag)
  ELSE IF exp.kind = "type" THEN sTypeTag \o exp.name
  ELSE exp.name

exportLines(inf) ==
  IF "exports" \in DOMAIN inf /\ Len(inf.exports) > 0
  THEN <<<<32, 32, 62>> \o JoinComma([k \in 1..Len(inf.exports) |-> exportName(inf.exports[k])])>>
  ELSE <<>>

RECURSIVE classLines(_, _)
classLines(inf, classes) ==
  IF classes = <<>> THEN <<>>
  ELSE <<clsLine(Head(classes))>>
         \o [k \in 1..Len(Head(classes).methods) |->
               methodLine(inf, Head(classes), Head(classes).methods[k])]
         \o classLines(inf, Tail(classes))

\* the lines of one file block
fileBlock(entry) ==
  LET inf == entry.info
  IN <<fileLine(entry)>>
       \o [k \in 1..Len(inf.imports) |-> importLine(inf.imports[k])]
       \o classLines(inf, inf.classes)
       \o [k \in 1..Len(inf.functions) |-> fnLine(inf, inf.functions[k])]
       \o [k \in 1..Len(inf.constants) |-> constLine(inf.constants[k])]
       \o exportLines(inf)

RECURSIVE fileBlocks(_)
fileBlocks(filesInfo) ==
  IF filesInfo = <<>> THEN <<>>
  ELSE fileBlock(Head(filesInfo)) \o fileBlocks(Tail(filesInfo))

\* lines.join('\n')
RECURSIVE JoinNewline(_)
JoinNewline(ls) ==
  IF ls = <<>> THEN <<>>
  ELSE IF Len(ls) = 1 THEN ls[1]
  ELSE ls[1] \o <<10>> \o JoinNewline(Tail(ls))

\* generateAiMap(dirPath, filesInfo): the text of the index
generateAiMap(dirPath, filesInfo) ==
  JoinNewline(<<sFnmap \o <<32>> \o PathBasename(dirPath) \o <<47>>>>
                \o fileBlocks(filesInfo)
                \o <<sFnmap>>)

-----------------------------------------------------------------------------
(* Serializer inputs *)

MaxNameLen == 3                     \* length of the display names compared
MaxFiles == 2                       \* entries of allFilesInfo

sH == <<104>>                       \* "h"
sQuoted == <<102, 34, 103, 34>>     \* f"g"

Fn(name) == [name |-> name, params |-> <<>>, startLine |-> 1, endLine |-> 1]
Mt(name) == [name |-> name, params |-> <<>>, line |-> 1, static |-> FALSE, kind |-> "method"]
Cls(name, methods) ==
  [name |-> name, superClass |-> NoName, startLine |-> 1, endLine |-> 1, methods |-> methods]
Entry(k, v) == [k |-> k, v |-> v]
Info(functions, classes, calls) ==
  [imports |-> <<>>, functions |-> functions, classes |-> classes, constants |-> <<>>,
   callGraph |-> calls]

\* call graphs over f, g, C.m, an undeclared h and the alias-qualified fs.g, fs.m
GenCallGraphs ==
  { <<>>,
    <<Entry(sF, <<sG>>)>>,
    <<Entry(sF, <<sH>>)>>,
    <<Entry(sH, <<sF>>)>>,
    <<Entry(Qualified(sC, sM), <<sF, sG>>)>>,
    <<Entry(sF, <<Qualified(sFs, sG), Qualified(sFs, sM)>>)>>,
    <<Entry(sG, <<Qualified(sC, sM)>>), Entry(sF, <<sG, sG>>)>> }

FileInfos ==
  { Info(fns, cls, cg) :
      fns \in {<<>>, <<Fn(sF)>>, <<Fn(sG)>>, <<Fn(sF), Fn(sG)>>, <<Fn(sQuoted), Fn(sF)>>},
      cls \in {<<>>, <<Cls(sC, <<>>)>>, <<Cls(sC, <<Mt(sM)>>)>>, <<Cls(sC, <<Mt(sQuoted)>>)>>},
      cg \in GenCallGraphs }

\* "a.js", "x/a.test.ts"
FileNames == { <<97, 46, 106, 115>>,
               <<120, 47, 97, 46, 116, 101, 115, 116, 46, 116, 115>> }

\* "a.js", "a_js", "a.ts", "x/a.js", "b.js"
RelativePaths ==
  { <<97, 46, 106, 115>>, <<97, 95, 106, 115>>, <<97, 46, 116, 115>>,
    <<120, 47, 97, 46, 106, 115>>, <<98, 46, 106, 115>> }

ProjectInfos ==
  { Info(<<>>, <<>>, <<>>),
    Info(<<Fn(sF)>>, <<>>, <<Entry(sF, <<sG>>)>>),
    Info(<<Fn(sG)>>, <<>>, <<>>),
    Info(<<Fn(sQuoted)>>, <<Cls(sC, <<Mt(sQuoted)>>)>>, <<Entry(sQuoted, <<sG>>)>>),
    Info(<<Fn(sF), Fn(sG)>>, <<>>, <<Entry(sF, <<sG>>), Entry(sG, <<sH>>)>>),
    Info(<<>>, <<Cls(sC, <<Mt(sM)>>)>>, <<Entry(Qualified(sC, sM), <<sF>>)>>),
    Info(<<Fn(sF)>>, <<>>, <<Entry(sF, <<Qualified(sC, sM), Qualified(sFs, sG)>>)>>) }

\* allFilesInfo: one entry per scanned file, so no relativePath occurs twice
ProjectFiles ==
  { fs \in UNION { [1..n -> [relativePath : RelativePaths, info : ProjectInfos]] :
                     n \in 1..MaxFiles } :
      \A i, j \in 1..Len(fs) : fs[i].relativePath = fs[j].relativePath => i = j }

\* display names over the units a . _ 4, and the names a.b, a_b, a_46_b
NameUnits == {97, 46, 95, 52}
DisplayNames ==
  UNION { [1..n -> NameUnits] : n \in 0..MaxNameLen }
    \cup { <<97, 46, 98>>, <<97, 95, 98>>, <<97, 95, 52, 54, 95, 98>> }

\* records as the analyzer builds them, with the descriptions of their comments
FnRec(name, params, startLine, endLine, description) ==
  [name |-> name, params |-> params, startLine |-> startLine, endLine |-> endLine,
   description |-> description]
MtRec(name, params, line, static, kind, description) ==
  [name |-> name, params |-> params, line |-> line, static |-> static, kind |-> kind,
   description |-> description]
ClsRec(name, superClass, startLine, endLine, description, methods) ==
  [name |-> name, superClass |-> superClass, startLine |-> startLine,
   endLine |-> endLine, description |-> description, methods |-> methods]
ConstRec(name, line, description) ==
  [name |-> name, line |-> line, description |-> description]
ImpRec(module, members) == [module |-> module, members |-> members, usedIn |-> <<>>]

sA == <<97>>                                     \* "a"
sParams == <<97, 44, 98, 63>>                    \* "a,b?"
sRest == <<46, 46, 46, 114>>                     \* "...r"
sMax == <<77, 65, 88>>                           \* "MAX"
sText == <<97, 100, 100, 115>>                   \* "adds"
sLikeFn == <<103, 40, 97, 41, 32, 49, 45, 50>>   \* "g(a) 1-2"
\* the module specifier "a\n  f() 1-2 " of import x from "a\n  f() 1-2 "
sTwoLines == <<97, 10, 32, 32, 102, 40, 41, 32, 49, 45, 50, 32>>

\* Modules of one file: f, g and m as functions, C with methods m and a getter
IndexInfos ==
  { [description |-> d, imports |-> im, functions |-> fns, classes |-> cls,
     constants |-> cs, exports |-> ex, callGraph |-> cg] :
      d \in {<<>>, sLikeFn},
      im \in {<<>>, <<ImpRec(sFs, <<sF, sG>>)>>, <<ImpRec(sTwoLines, <<sF>>)>>},
      fns \in {<<>>,
               <<FnRec(sF, sParams, 9, 12, sText)>>,
               <<FnRec(sM, sRest, 1, 1, <<>>), FnRec(sG, <<>>, 2, 3, sLikeFn)>>,
               <<FnRec(sAnonymous, sQuestion, 0, 0, <<>>), FnRec(Qualified(sO, sF), sA, 4, 4, <<>>)>>,
               <<FnRec(sF, <<>>, 1, 2, <<>>), FnRec(sF, sA, 3, 4, <<>>)>>},
      cls \in {<<>>,
               <<ClsRec(sC, NoName, 5, 20, <<>>, <<>>)>>,
               <<ClsRec(sC, sO, 5, 20, sLikeFn,
                        <<MtRec(sM, sParams, 6, FALSE, "method", sText),
                          MtRec(sG, <<>>, 10, TRUE, "get", <<>>)>>)>>,
               <<ClsRec(sDefault, NoName, 1, 3, <<>>,
                        <<MtRec(sComputed, sQuestion, 2, FALSE, "set", sLikeFn)>>),
                 ClsRec(sC, NoName, 4, 6, <<>>,
                        <<MtRec(sM, <<>>, 5, FALSE, "method", <<>>)>>)>>},
      cs \in {<<>>, <<ConstRec(sMax, 7, <<>>)>>, <<ConstRec(sMax, 7, sLikeFn), ConstRec(sG, 30, sText)>>},
      ex \in {<<>>,
              <<ExportRecord(sF, NoName, 9, "value"), ExportRecord(sT, NoName, 1, "type"),
                ExportRecord(sDefaultTag, sG, 2, "default")>>},
      cg \in {<<>>,
              <<Entry(sF, <<sG>>)>>,
              <<Entry(Qualified(sC, sM), <<sF, sG>>), Entry(sF, <<Qualified(sFs, sG)>>)>>,
              <<Entry(sM, <<sG>>)>>,
              <<Entry(sG, <<sF>>), Entry(Qualified(sC, sG), <<sM>>)>>} }

\* filesInfo: one file, or two files out of a few
IndexFiles ==
  { <<[relativePath |-> p, info |-> i]>> : p \in {<<120, 47, 97, 46, 106, 115>>}, i \in IndexInfos }
    \cup { <<[relativePath |-> <<97, 46, 106, 115>>, info |-> i],
             [relativePath |-> <<98, 46, 106, 115>>, info |-> j]>> :
             i, j \in {x \in IndexInfos :
                         /\ x.description = <<>> /\ x.imports = <<>> /\ x.exports = <<>>
                         /\ x.constants = <<>> /\ Len(x.callGraph) = 1
                         /\ Len(x.functions) + Len(x.classes) = 2} }

-----------------------------------------------------------------------------
(* The serializers as state machines: one call each *)

Pending == [kind |-> "pending"]

InitGen(calls) ==
  /\ ast = <<>>
  /\ pc = "idle"
  /\ importsMap = <<>>
  /\ localToModule = <<>>
  /\ usageMap = <<>>
  /\ callGraph = <<>>
  /\ cursor = 0
  /\ info = EmptyInfo
  /\ gen \in calls
  /\ out = Pending

analyzerVars == <<ast, pc, importsMap, localToModule, usageMap, callGraph, cursor, info>>

\* two node ids derived by safeId
DeriveIds ==
  /\ gen.op = "ids"
  /\ out = Pending
  /\ out' = [kind |-> "ids", a |-> safeId(gen.a), b |-> safeId(gen.b)]
  /\ UNCHANGED <<analyzerVars, gen>>

InitSafeId == InitGen({[op |-> "ids", a |-> a, b |-> b] : a \in DisplayNames, b \in DisplayNames})
SpecSafeId == InitSafeId /\ [][DeriveIds]_vars

\* one call of generateFileMermaid
GenerateFileMermaid ==
  /\ gen.op = "file"
  /\ out = Pending
  /\ out' = generateFileMermaid(gen.fileName, gen.info)
  /\ UNCHANGED <<analyzerVars, gen>>

InitFileMermaid ==
  InitGen({[op |-> "file", fileName |-> n, info |-> i] : n \in FileNames, i \in FileInfos})
SpecFileMermaid == InitFileMermaid /\ [][GenerateFileMermaid]_vars

\* one call of generateProjectMermaid
GenerateProjectMermaid ==
  /\ gen.op = "project"
  /\ out = Pending
  /\ out' = generateProjectMermaid(gen.files)
  /\ UNCHANGED <<analyzerVars, gen>>

InitProjectMermaid == InitGen({[op |-> "project", files |-> fs] : fs \in ProjectFiles})
SpecProjectMermaid == InitProjectMermaid /\ [][GenerateProjectMermaid]_vars

\* one call of generateAiMap
GenerateAiMap ==
  /\ gen.op = "index"
  /\ out = Pending
  /\ out' = [kind |-> "fnmap", text |-> generateAiMap(gen.dirPath, gen.files)]
  /\ UNCHANGED <<analyzerVars, gen>>

\* dirPath "/p/src" or "src/"
InitAiMap ==
  InitGen({[op |-> "index", dirPath |-> d, files |-> fs] :
             d \in {<<47, 112, 47, 115, 114, 99>>, <<115, 114, 99, 47>>}, fs \in IndexFiles})
SpecAiMap == InitAiMap /\ [][GenerateAiMap]_vars

\* main in --files mode: one index per entry of dirFilesMap
sProjectDir == <<47, 112>>                      \* "/p"
sFnmapExt == <<46, 102, 110, 109, 97, 112>>     \* ".fnmap"

\* "/p/a.js", "/p/a.ts", "/p/x/a.js", "/p/b.js"
InputFilePaths ==
  { <<47, 112, 47, 97, 46, 106, 115>>, <<47, 112, 47, 97, 46, 116, 115>>,
    <<47, 112, 47, 120, 47, 97, 46, 106, 115>>, <<47, 112, 47, 98, 46, 106, 115>> }

\* path.dirname(p) for an absolute path below the root
PathDirname(p) ==
  LET slashes == {i \in 1..Len(p) : p[i] = 47}
      last == CHOOSE i \in slashes : \A j \in slashes : j <= i
  IN IF last = 1 THEN <<47>> ELSE SubSeq(p, 1, last - 1)

\* path.relative(projectDir, filePath) for a file below projectDir
PathRelative(projectDir, filePath) == SubSeq(filePath, Len(projectDir) + 2, Len(filePath))

\* path.join(dir, name) for a plain file name
PathJoin(dir, name) == IF dir = <<47>> THEN dir \o name ELSE dir \o <<47>> \o name

\* path.join(dir, `${baseName}.fnmap`)
mapPath(dir, relativePath) == PathJoin(dir, FileStem(relativePath) \o sFnmapExt)

\* the entries of dirFilesMap in the order of its two nested loops: the
\* directories in first-seen order, the files of each in list order
RECURSIVE DirsOf(_, _)
DirsOf(files, seen) ==
  IF files = <<>> THEN seen
  ELSE DirsOf(Tail(files), SetAdd(seen, PathDirname(Head(files))))
RECURSIVE FilesIn(_, _)
FilesIn(dir, files) ==
  IF files = <<>> THEN <<>>
  ELSE (IF PathDirname(Head(files)) = dir THEN <<Head(files)>> ELSE <<>>)
         \o FilesIn(dir, Tail(files))
RECURSIVE DirFilesEntries(_, _)
DirFilesEntries(dirs, files) ==
  IF dirs = <<>> THEN <<>>
  ELSE FilesIn(Head(dirs), files) \o DirFilesEntries(Tail(dirs), files)

\* the index written for one file
FileIndex(filePath, inf) ==
  generateAiMap(PathDirname(filePath),
                <<[relativePath |-> PathRelative(sProjectDir, filePath), info |-> inf]>>)

\* one iteration of the inner loop: generateAiMap, then writeFileSync
WriteFileIndex ==
  /\ pc = "write"
  /\ IF cursor < Len(gen.entries)
     THEN LET filePath == gen.entries[cursor + 1]
              target == mapPath(PathDirname(filePath), PathRelative(sProjectDir, filePath))
          IN /\ out' = [out EXCEPT !.files =
                          MapSet(@, target, FileIndex(filePath, gen.infos[filePath]))]
             /\ cursor' = cursor + 1
             /\ pc' = pc
     ELSE /\ pc' = "written"
          /\ UNCHANGED <<cursor, out>>
  /\ UNCHANGED <<ast, importsMap, localToModule, usageMap, callGraph, info, gen>>

\* Modules of analyzed files that are not pure-type
WrittenInfos ==
  { Info(<<Fn(sF)>>, <<>>, <<Entry(sF, <<sG>>)>>), Info(<<>>, <<Cls(sC, <<Mt(sM)>>)>>, <<>>) }

\* the de-duplicated list of --files arguments, all analyzed and collected
InitSingleFile ==
  /\ ast = <<>>
  /\ pc = "write"
  /\ importsMap = <<>>
  /\ localToModule = <<>>
  /\ usageMap = <<>>
  /\ callGraph = <<>>
  /\ cursor = 0
  /\ info = EmptyInfo
  /\ gen \in {[op |-> "write", files |-> fs,
                entries |-> DirFilesEntries(DirsOf(fs, <<>>), fs), infos |-> is] :
               fs \in {f \in UNION {[1..n -> InputFilePaths] : n \in 1..MaxBatch} :
                         \A i, j \in 1..Len(f) : f[i] = f[j] => i = j},
               is \in [InputFilePaths -> WrittenInfos]}
  /\ out = [kind |-> "fs", files |-> <<>>]

SpecSingleFile == InitSingleFile /\ [][WriteFileIndex]_vars

\* scanDirectory: the recursion as a stack of calls
MAX_DIR_DEPTH == 50
MaxDirs == 2                        \* real directories of the small structures
DeepDirs == MAX_DIR_DEPTH + 2       \* directories of the nested chain

\* '.js', '.ts', '.jsx', '.tsx', '.mjs'
SUPPORTED_EXTENSIONS ==
  { <<46, 106, 115>>, <<46, 116, 115>>, <<46, 106, 115, 120>>, <<46, 116, 115, 120>>,
    <<46, 109, 106, 115>> }

isTypeDefinitionFile(name) ==
  \/ EndsWith(name, <<46, 100, 46, 116, 115>>)
  \/ EndsWith(name, <<46, 100, 46, 116, 115, 120>>)
  \/ EndsWith(name, <<46, 100, 46, 109, 116, 115>>)

\* the name of real directory n: "d1", "d2", ...
DirName(n) == <<100>> \o Decimal(n)

\* a visited test that never finds the real path
NeverVisited(visited, realPath) == FALSE

\* visited.has(realPath)
AlreadyVisited(visited, realPath) == realPath \in visited

\* depth > MAX_DIR_DEPTH
TooDeep(depth) == depth > MAX_DIR_DEPTH

\* a call scanDirectory(dir, baseDir, excludes, depth, visited): dir by its real
\* directory and the names leading to it; phase "enter" before readdirSync,
\* "loop" while the entries are walked, k entries done
Frame(real, path, depth) == [real |-> real, path |-> path, depth |-> depth, phase |-> "enter", k |-> 0]

\* the checks of a call up to readdirSync
ScanEnter ==
  /\ pc = "scan"
  /\ out.stack # <<>>
  /\ LET n == Len(out.stack)
         f == out.stack[n]
         pop == SubSeq(out.stack, 1, n - 1)
     IN /\ f.phase = "enter"
        /\ IF \/ f.real \notin DOMAIN gen.dirs
              \/ TooDeep(f.depth)
              \/ f.real \in gen.unresolvable
              \/ AlreadyVisited(out.visited, f.real)
           THEN out' = [out EXCEPT !.stack = pop]
           ELSE IF f.real \in gen.unreadable
           THEN out' = [out EXCEPT !.stack = pop, !.visited = @ \cup {f.real}]
           ELSE out' = [out EXCEPT !.stack[n].phase = "loop",
                                   !.visited = @ \cup {f.real},
                                   !.readdirs = Append(@, [real |-> f.real, depth |-> f.depth])]
  /\ UNCHANGED <<ast, pc, importsMap, localToModule, usageMap, callGraph, cursor, info, gen>>

\* one iteration over the entries, or the return of the call
ScanEntry ==
  /\ pc = "scan"
  /\ out.stack # <<>>
  /\ LET n == Len(out.stack)
         f == out.stack[n]
         entries == gen.dirs[f.real]
     IN /\ f.phase = "loop"
        /\ IF f.k < Len(entries)
           THEN LET entry == entries[f.k + 1]
                    next == [out EXCEPT !.stack[n].k = @ + 1]
                IN IF entry.kind = "directory"
                   THEN IF ~InSeq(entry.name, gen.excludes)
                        THEN out' = [next EXCEPT !.stack =
                                       Append(@, Frame(entry.real, Append(f.path, entry.name),
                                                       f.depth + 1))]
                        ELSE out' = next
                   ELSE IF /\ entry.kind = "file"
                           /\ PathExtname(entry.name) \in SUPPORTED_EXTENSIONS
                           /\ ~isTypeDefinitionFile(entry.name)
                   THEN out' = [next EXCEPT !.files = Append(@, Append(f.path, entry.name))]
                   ELSE out' = next
           ELSE out' = [out EXCEPT !.stack = SubSeq(@, 1, n - 1)]
  /\ UNCHANGED <<ast, pc, importsMap, localToModule, usageMap, callGraph, cursor, info, gen>>

\* the top-level call has returned
ScanDone ==
  /\ pc = "scan"
  /\ out.stack = <<>>
  /\ pc' = "scanned"
  /\ UNCHANGED <<ast, importsMap, localToModule, usageMap, callGraph, cursor, info, gen, out>>

\* the entries of a real directory: its subdirectories, a symbolic link, files
EntriesOf(n, subdirs) ==
  [k \in 1..Cardinality(subdirs) |->
     [kind |-> "directory", name |-> DirName(NthOf(subdirs, k)), real |-> NthOf(subdirs, k)]]
    \o <<[kind |-> "symlink", name |-> <<108>>],
          [kind |-> "file", name |-> <<97, 46, 106, 115>>],
          [kind |-> "file", name |-> <<97, 46, 100, 46, 116, 115>>],
          [kind |-> "file", name |-> <<97, 46, 109, 100>>]>>

\* directory structures over MaxDirs real directories, every directory with at
\* most two subdirectory entries, any of which may lead back to a directory
\* already on the way; and one chain of DeepDirs nested directories
SmallStructures ==
  { [n \in 1..MaxDirs |-> EntriesOf(n, g[n])] :
      g \in [1..MaxDirs -> {S \in SUBSET (1..MaxDirs) : Cardinality(S) <= 2}] }
DeepStructure ==
  [n \in 1..DeepDirs |-> IF n < DeepDirs THEN EntriesOf(n, {n + 1}) ELSE EntriesOf(n, {})]

InitScan ==
  /\ ast = <<>>
  /\ pc = "scan"
  /\ importsMap = <<>>
  /\ localToModule = <<>>
  /\ usageMap = <<>>
  /\ callGraph = <<>>
  /\ cursor = 0
  /\ info = EmptyInfo
  /\ gen \in {[op |-> "scan", dirs |-> d, root |-> 1, excludes |-> x,
                unreadable |-> u, unresolvable |-> {}] :
                 d \in SmallStructures, x \in {<<>>, <<DirName(2)>>}, u \in {{}, {2}}}
          \cup {[op |-> "scan", dirs |-> DeepStructure, root |-> r, excludes |-> <<>>,
                 unreadable |-> {}, unresolvable |-> v] :
                   r \in {0, 1}, v \in {{}, {3}}}
  /\ out = [kind |-> "scan", stack |-> <<Frame(gen.root, <<>>, 0)>>, visited |-> {},
            files |-> <<>>, readdirs |-> <<>>]

\* a call never waits: it runs until it returns
ScanStep == ScanEnter \/ ScanEntry \/ ScanDone
SpecScan == InitScan /\ [][ScanStep]_vars /\ WF_vars(ScanStep)

\* either serializer, called once
InitDiagrams == InitFileMermaid \/ InitProjectMermaid
SpecDiagrams == InitDiagrams /\ [][GenerateFileMermaid \/ GenerateProjectMermaid]_vars

-----------------------------------------------------------------------------
(* Properties of the diagrams *)

LinesOf(kind) == {k \in 1..Len(out.lines) : out.lines[k].t = kind}
NodeIds == {out.lines[k].id : k \in LinesOf("node")}

IsPrefix(p, s) == Len(p) <= Len(s) /\ SubSeq(s, 1, Len(p)) = p

\* C7: safeId is injective: two different display names get different ids.
C7_SafeIdInjective ==
  out.kind = "ids" => (gen.a # gen.b => out.a # out.b)

\* the ids of a.b and a_46_b were derived
C7_Witness ==
  /\ out.kind = "ids"
  /\ gen.a = <<97, 46, 98>>
  /\ gen.b = <<97, 95, 52, 54, 95, 98>>
  /\ out.a # out.b

\* the input entries of generateProjectMermaid that declare a function or method
Declaring == {i \in 1..Len(gen.files) : Len(AllFunctions(gen.files[i].info)) > 0}

\* C8: two input files with different relativePath, each declaring a function
\* or method, get two clusters with different subgraph ids, and no node id is
\* shared between clusters.
C8_DistinctClusterIds ==
  (gen.op = "project" /\ out.kind = "lines") =>
    /\ \A i, j \in Declaring :
         gen.files[i].relativePath # gen.files[j].relativePath =>
           \E a, b \in LinesOf("subgraph") :
             /\ a # b
             /\ out.lines[a].label = escapeLabel(FileStem(gen.files[i].relativePath))
             /\ out.lines[b].label = escapeLabel(FileStem(gen.files[j].relativePath))
             /\ out.lines[a].id # out.lines[b].id
    /\ \A a, b \in LinesOf("node") : a # b => out.lines[a].id # out.lines[b].id

\* the call edges handed to generateProjectMermaid: <<entry, caller, callee>>
InputEdges ==
  UNION {UNION {{<<f, gen.files[f].info.callGraph[k].k, gen.files[f].info.callGraph[k].v[j]>> :
                   j \in 1..Len(gen.files[f].info.callGraph[k].v)} :
                k \in 1..Len(gen.files[f].info.callGraph)} :
           f \in 1..Len(gen.files)}

DeclaredIn(i, name) == InSeq(name, AllFunctions(gen.files[i].info))

\* C9: every emitted edge targets an emitted node and comes from a call whose
\* callee some input file declares; a callee declared nowhere gives no edge.
C9_EdgesTargetDeclaredNodes ==
  (gen.op = "project" /\ out.kind = "lines") =>
    /\ \A k \in LinesOf("edge") :
         /\ out.lines[k].to \in NodeIds
         /\ \E e \in InputEdges : \E g \in 1..Len(gen.files) :
              /\ DeclaredIn(g, e[3])
              /\ out.lines[k].id = ProjectNodeId(FileStem(gen.files[e[1]].relativePath), e[2])
              /\ out.lines[k].to = ProjectNodeId(FileStem(gen.files[g].relativePath), e[3])
    /\ \A e \in InputEdges :
         (\A g \in 1..Len(gen.files) : ~DeclaredIn(g, e[3])) =>
           \A k \in LinesOf("edge") : \A g \in 1..Len(gen.files) :
             out.lines[k].to # ProjectNodeId(FileStem(gen.files[g].relativePath), e[3])

\* an edge was emitted and a call to an undeclared callee was dropped
C9_Witness ==
  /\ gen.op = "project"
  /\ out.kind = "lines"
  /\ LinesOf("edge") # {}
  /\ \E e \in InputEdges : \A g \in 1..Len(gen.files) : ~DeclaredIn(g, e[3])

\* the edge line drawn for input edge e ends at the node of e's own file
TargetsOwnCluster(e) ==
  \E k \in LinesOf("edge") :
    /\ out.lines[k].id = ProjectNodeId(FileStem(gen.files[e[1]].relativePath), e[2])
    /\ out.lines[k].to = ProjectNodeId(FileStem(gen.files[e[1]].relativePath), e[3])

\* C30: when the caller's own file declares the callee's name, the edge ends
\* at the node of that file's cluster, whatever earlier files declare.
C30_OwnFileFirst ==
  (gen.op = "project" /\ out.kind = "lines") =>
    \A e \in InputEdges : DeclaredIn(e[1], e[3]) => TargetsOwnCluster(e)

\* the same when no file listed before the caller's declares the callee's name
OwnFileWhenNoEarlierDeclares ==
  (gen.op = "project" /\ out.kind = "lines") =>
    \A e \in InputEdges :
      (DeclaredIn(e[1], e[3]) /\ \A g \in 1..(e[1] - 1) : ~DeclaredIn(g, e[3]))
      => TargetsOwnCluster(e)

\* C29: in the output of generateFileMermaid both ends of every edge line are
\* ids of node lines of the file's cluster.
C29_FileEdgesJoinNodes ==
  (gen.op = "file" /\ out.kind = "lines") =>
    \A k \in LinesOf("edge") : out.lines[k].id \in NodeIds /\ out.lines[k].to \in NodeIds

\* the same for the edges whose caller and callee are both names of the file
FileEdgesBetweenDeclaredJoinNodes ==
  (gen.op = "file" /\ out.kind = "lines") =>
    \A k \in LinesOf("edge") :
      (\E a, b \in SeqSet(AllFunctions(gen.info)) :
         out.lines[k].id = safeId(a) /\ out.lines[k].to = safeId(b))
      => out.lines[k].id \in NodeIds /\ out.lines[k].to \in NodeIds

\* C10: generateFileMermaid returns null iff the Module has no function record
\* and no class method; otherwise a text starting with "flowchart TD".
C10_NullIffNothingToDraw ==
  (gen.op = "file" /\ out.kind # "pending") =>
    /\ out.kind = "null" <=>
         /\ Len(gen.info.functions) = 0
         /\ \A c \in 1..Len(gen.info.classes) : Len(gen.info.classes[c].methods) = 0
    /\ out.kind # "null" =>
         out.kind = "lines" /\ IsPrefix(sFlowchart, out.text)

\* null was returned for a Module that holds a class record and call edges
C10_Witness ==
  /\ gen.op = "file"
  /\ out.kind = "null"
  /\ gen.info.classes # <<>>
  /\ gen.info.callGraph # <<>>

\* the display names handed to the serializer that was called
DrawnNames ==
  IF gen.op = "file" THEN {AllFunctions(gen.info)[k] : k \in 1..Len(AllFunctions(gen.info))}
  ELSE UNION {{AllFunctions(gen.files[f].info)[k] :
                 k \in 1..Len(AllFunctions(gen.files[f].info))} : f \in 1..Len(gen.files)}

QuotesBefore(n, i) == Cardinality({j \in 1..(i - 1) : n[j] = 34})

\* l is n with `#quot;` in place of each double quote, and holds no raw quote
IsEscapeOf(l, n) ==
  /\ \A j \in 1..Len(l) : l[j] # 34
  /\ Len(l) = Len(n) + 5 * QuotesBefore(n, Len(n) + 1)
  /\ \A i \in 1..Len(n) :
       LET at == i + 5 * QuotesBefore(n, i)
       IN IF n[i] = 34 THEN SubSeq(l, at, at + 5) = sQuot ELSE l[at] = n[i]

\* C11: the node of a display name that contains a double quote has a label
\* with `#quot;` in place of each quote, and an id without a quote character.
C11_QuotesEscaped ==
  out.kind = "lines" =>
    /\ \A k \in LinesOf("node") :
         /\ \A j \in 1..Len(out.lines[k].id) : out.lines[k].id[j] # 34
         /\ \E n \in DrawnNames : IsEscapeOf(out.lines[k].label, n)
    /\ \A n \in DrawnNames : \E k \in LinesOf("node") : IsEscapeOf(out.lines[k].label, n)

\* a function and a method whose names hold double quotes were drawn
C11_Witness ==
  /\ out.kind = "lines"
  /\ sQuoted \in DrawnNames
  /\ Qualified(sC, sQuoted) \in DrawnNames
  /\ \E k \in LinesOf("node") : IsEscapeOf(out.lines[k].label, sQuoted)

-----------------------------------------------------------------------------
(* Properties of the directory index *)

\* the index read back line by line
SplitLines(text) ==
  LET nl == {i \in 1..Len(text) : text[i] = 10}
      from(k) == IF k = 1 THEN 1 ELSE NthOf(nl, k - 1) + 1
      to(k) == IF k = Cardinality(nl) + 1 THEN Len(text) ELSE NthOf(nl, k) - 1
  IN [k \in 1..(Cardinality(nl) + 1) |-> SubSeq(text, from(k), to(k))]

\* position of the first ch in s, 0 when there is none
IndexOf(s, ch) ==
  IF \E i \in 1..Len(s) : s[i] = ch
  THEN CHOOSE i \in 1..Len(s) : s[i] = ch /\ \A j \in 1..(i - 1) : s[j] # ch
  ELSE 0

\* the k-th space-separated token of s; <<>> past the last one
RECURSIVE Token(_, _)
Token(s, k) ==
  LET sp == IndexOf(s, 32)
      first == IF sp = 0 THEN s ELSE SubSeq(s, 1, sp - 1)
      rest == IF sp = 0 THEN <<>> ELSE SubSeq(s, sp + 1, Len(s))
  IN IF k = 1 THEN first ELSE Token(rest, k - 1)

IsDigits(s) == s # <<>> /\ \A i \in 1..Len(s) : s[i] \in 48..57
RECURSIVE ParseDecimal(_)
ParseDecimal(s) ==
  IF s = <<>> THEN 0 ELSE 10 * ParseDecimal(SubSeq(s, 1, Len(s) - 1)) + (s[Len(s)] - 48)

\* name(params)
IsSignature(tok) == IndexOf(tok, 40) > 1 /\ tok[Len(tok)] = 41
SignatureName(tok) == SubSeq(tok, 1, IndexOf(tok, 40) - 1)
SignatureParams(tok) == SubSeq(tok, IndexOf(tok, 40) + 1, Len(tok) - 1)

\* start-end
IsRange(tok) ==
  LET d == IndexOf(tok, 45)
  IN d > 1 /\ IsDigits(SubSeq(tok, 1, d - 1)) /\ IsDigits(SubSeq(tok, d + 1, Len(tok)))

\* two spaces, then name(params) start-end
IsFunctionLine(l) ==
  /\ Len(l) > 2 /\ l[1] = 32 /\ l[2] = 32 /\ l[3] # 32
  /\ LET body == SubSeq(l, 3, Len(l))
     IN IsSignature(Token(body, 1)) /\ IsRange(Token(body, 2))

ParsedFunction(l) ==
  LET body == SubSeq(l, 3, Len(l))
      range == Token(body, 2)
      d == IndexOf(range, 45)
  IN [name |-> SignatureName(Token(body, 1)),
      params |-> SignatureParams(Token(body, 1)),
      startLine |-> ParseDecimal(SubSeq(range, 1, d - 1)),
      endLine |-> ParseDecimal(SubSeq(range, d + 1, Len(range)))]

\* four spaces, "." or "+", an optional get: or set:, then name(params) line
MethodBody(l) ==
  LET b == SubSeq(l, 6, Len(l))
  IN IF IsPrefix(sGetMark, b) \/ IsPrefix(sSetMark, b) THEN SubSeq(b, 5, Len(b)) ELSE b

IsMethodLine(l) ==
  /\ Len(l) > 5 /\ SubSeq(l, 1, 4) = <<32, 32, 32, 32>> /\ l[5] \in {43, 46}
  /\ IsSignature(Token(MethodBody(l), 1)) /\ IsDigits(Token(MethodBody(l), 2))

ParsedMethod(l) ==
  [name |-> SignatureName(Token(MethodBody(l), 1)),
   params |-> SignatureParams(Token(MethodBody(l), 1)),
   line |-> ParseDecimal(Token(MethodBody(l), 2))]

\* the lines that read as function lines, and as method lines
RECURSIVE FunctionLinesOf(_)
FunctionLinesOf(ls) ==
  IF ls = <<>> THEN <<>>
  ELSE (IF IsFunctionLine(Head(ls)) THEN <<Head(ls)>> ELSE <<>>) \o FunctionLinesOf(Tail(ls))
RECURSIVE MethodLinesOf(_)
MethodLinesOf(ls) ==
  IF ls = <<>> THEN <<>>
  ELSE (IF IsMethodLine(Head(ls)) THEN <<Head(ls)>> ELSE <<>>) \o MethodLinesOf(Tail(ls))

\* the function records of the input in file order, each with its Module
RECURSIVE InputFunctions(_)
InputFunctions(files) ==
  IF files = <<>> THEN <<>>
  ELSE [k \in 1..Len(Head(files).info.functions) |->
          [info |-> Head(files).info, fn |-> Head(files).info.functions[k]]]
         \o InputFunctions(Tail(files))

\* the method records of the input in file and class order
RECURSIVE ClassMethodsIn(_, _)
ClassMethodsIn(inf, classes) ==
  IF classes = <<>> THEN <<>>
  ELSE [k \in 1..Len(Head(classes).methods) |->
          [info |-> inf, cls |-> Head(classes), method |-> Head(classes).methods[k]]]
         \o ClassMethodsIn(inf, Tail(classes))
RECURSIVE InputMethods(_)
InputMethods(files) ==
  IF files = <<>> THEN <<>>
  ELSE ClassMethodsIn(Head(files).info, Head(files).info.classes)
         \o InputMethods(Tail(files))

IndexLines == SplitLines(out.text)

\* C15: read back line by line, the index yields for every function exactly
\* its (name, params, startLine-endLine) and for every method exactly its
\* (name, params, line), in order, none lost, duplicated or taken from a class,
\* constant, import or export line.
C15_IndexRoundTrip ==
  out.kind = "fnmap" =>
    LET fl == FunctionLinesOf(IndexLines)
        ml == MethodLinesOf(IndexLines)
        fns == InputFunctions(gen.files)
        mts == InputMethods(gen.files)
    IN /\ Len(fl) = Len(fns)
       /\ \A k \in 1..Len(fl) :
            ParsedFunction(fl[k]) =
              [name |-> fns[k].fn.name, params |-> fns[k].fn.params,
               startLine |-> fns[k].fn.startLine, endLine |-> fns[k].fn.endLine]
       /\ Len(ml) = Len(mts)
       /\ \A k \in 1..Len(ml) :
            ParsedMethod(ml[k]) =
              [name |-> mts[k].method.name, params |-> mts[k].method.params,
               line |-> mts[k].method.line]

\* s.split(',')
RECURSIVE SplitComma(_)
SplitComma(s) ==
  LET c == IndexOf(s, 44)
  IN IF c = 0 THEN <<s>>
     ELSE <<SubSeq(s, 1, c - 1)>> \o SplitComma(SubSeq(s, c + 1, Len(s)))

\* the names after " →" on line l; none when the line has no such suffix
ParsedSuffix(l) ==
  LET a == IndexOf(l, 8594)
  IN IF a > 1 /\ l[a - 1] = 32 /\ a < Len(l)
     THEN SplitComma(SubSeq(l, a + 1, Len(l))) ELSE <<>>

\* the outgoing call-graph targets of caller in a Module
Targets(inf, caller) ==
  IF MapHas(inf.callGraph, caller) THEN MapGet(inf.callGraph, caller) ELSE <<>>

\* C17: the suffix of a function line lists exactly the call-graph targets of
\* that function, and the suffix of the line of method m of class C lists
\* exactly the targets of caller C.m.
C17_SuffixListsOwnTargets ==
  out.kind = "fnmap" =>
    LET fl == FunctionLinesOf(IndexLines)
        ml == MethodLinesOf(IndexLines)
        fns == InputFunctions(gen.files)
        mts == InputMethods(gen.files)
    IN /\ Len(fl) = Len(fns) =>
            \A k \in 1..Len(fl) : ParsedSuffix(fl[k]) = Targets(fns[k].info, fns[k].fn.name)
       /\ Len(ml) = Len(mts) =>
            \A k \in 1..Len(ml) :
              ParsedSuffix(ml[k]) =
                Targets(mts[k].info, Qualified(mts[k].cls.name, mts[k].method.name))

\* l without its leading spaces
RECURSIVE TrimStart(_)
TrimStart(l) == IF l # <<>> /\ Head(l) = 32 THEN TrimStart(Tail(l)) ELSE l

\* the constant records of the input
InputConstants ==
  UNION {{gen.files[f].info.constants[k] : k \in 1..Len(gen.files[f].info.constants)} :
           f \in 1..Len(gen.files)}

\* C18: every constant record is written as a line `$<name> <line> [description]`.
C18_ConstantsHaveDollarPrefix ==
  out.kind = "fnmap" =>
    \A c \in InputConstants :
      \E k \in 1..Len(IndexLines) :
        TrimStart(IndexLines[k]) =
          <<36>> \o c.name \o <<32>> \o Decimal(c.line) \o DescriptionSuffix(c)

-----------------------------------------------------------------------------
(* Properties of the purity classification *)

TopLevel == {i \in 1..Len(ast) : ast[i].parent = 0}

\* at least one specifier, each of the given type and marked `type`
AllSpecifiersTyped(i, specType) ==
  /\ ChildSet(ast, i, "specifiers") # {}
  /\ \A sp \in ChildSet(ast, i, "specifiers") :
       ast[sp].type = specType /\ ast[sp].kind = "type"

\* a type alias or interface, a type-only import, or a type-only export / re-export
IsTypeOnlyStatement(i) ==
  \/ ast[i].type \in {"TSTypeAliasDeclaration", "TSInterfaceDeclaration"}
  \/ /\ ast[i].type = "ImportDeclaration"
     /\ ast[i].kind = "type" \/ AllSpecifiersTyped(i, "ImportSpecifier")
  \/ /\ ast[i].type = "ExportNamedDeclaration"
     /\ \/ ast[i].kind = "type"
        \/ AllSpecifiersTyped(i, "ExportSpecifier")
        \/ \E d \in ChildSet(ast, i, "declaration") :
             ast[d].type \in {"TSTypeAliasDeclaration", "TSInterfaceDeclaration"}
  \/ ast[i].type = "ExportAllDeclaration" /\ ast[i].kind = "type"

\* C12: isPureType is true iff every top-level statement is a type-only
\* declaration, a type-only import or a type-only export / re-export.
C12_PureIffTypeOnly ==
  Returned => (info.isPureType <=> \A i \in TopLevel : IsTypeOnlyStatement(i))

\* C13: a Module with isPureType = true has no function, class or constant
\* record, an empty call graph and no export of kind value or default.
C13_PureHasNoRuntimeRecords ==
  (Returned /\ info.isPureType) =>
    /\ info.functions = <<>>
    /\ info.classes = <<>>
    /\ info.constants = <<>>
    /\ info.callGraph = <<>>
    /\ \A k \in 1..Len(info.exports) : info.exports[k].kind \notin {"value", "default"}

-----------------------------------------------------------------------------
(* Properties of the result of analyzeFile *)

\* C16: two invocations on the same code return equal Modules whatever was
\* analyzed before or between them, and an invocation starts from empty maps
\* and an empty Module.
C16_InvocationsIndependent ==
  gen.op = "session" =>
    /\ \A i, j \in 1..Len(out.results) :
         gen.codes[i] = gen.codes[j] => out.results[i] = out.results[j]
    /\ (pc = "collect" /\ cursor = 0) =>
         /\ importsMap = <<>> /\ localToModule = <<>> /\ usageMap = <<>>
         /\ callGraph = <<>> /\ info = EmptyInfo

\* the same code analyzed first and third, with another code between
C16_Witness ==
  /\ gen.op = "session"
  /\ Len(out.results) = 3
  /\ gen.codes[1] = gen.codes[3]
  /\ gen.codes[1] # gen.codes[2]
  /\ out.results[1].imports # <<>>
  /\ out.results[2].functions # <<>>

\* the outcome of processFile by argument and file
ProcessOutcomeIs(types) ==
  pc = "returned" =>
    /\ out.success \in BOOLEAN
    /\ IF out.success THEN DOMAIN out = {"success", "info"}
       ELSE /\ {"success", "error", "errorType"} \subseteq DOMAIN out
            /\ out.error # <<>>
            /\ out.errorType \in types
    /\ gen.arg.kind # "path" => ~out.success /\ out.errorType = "VALIDATION_ERROR"
    /\ (gen.arg.kind = "path" /\ gen.file.kind = "absent") =>
         ~out.success /\ out.errorType = "FILE_NOT_FOUND"
    /\ (gen.arg.kind = "path" /\ gen.file.kind = "directory") =>
         ~out.success /\ out.errorType = "VALIDATION_ERROR"
    /\ (~out.success /\ out.errorType = "FILE_TOO_LARGE") <=>
         (gen.arg.kind = "path" /\ gen.file.kind = "regular"
          /\ gen.file.size > MAX_FILE_SIZE)
    /\ (gen.arg.kind = "path" /\ gen.file.kind = "regular"
        /\ gen.file.size <= MAX_FILE_SIZE) =>
         IF ~gen.file.readable THEN ~out.success /\ out.errorType = "FILE_READ_ERROR"
         ELSE IF gen.code.kind = "rejected"
         THEN /\ ~out.success /\ out.errorType = "PARSE_ERROR"
              /\ out.loc = gen.code.error.loc
         ELSE out.success

\* C19 as stated: no exception leaves processFile; it returns success with info, or a failure whose
\* errorType is VALIDATION_ERROR, FILE_NOT_FOUND, FILE_TOO_LARGE, PARSE_ERROR
\* or FILE_READ_ERROR, each under its condition.
C19_ListedErrorTypesOnly ==
  /\ pc # "thrown"
  /\ ProcessOutcomeIs({"VALIDATION_ERROR", "FILE_NOT_FOUND", "FILE_TOO_LARGE",
                       "PARSE_ERROR", "FILE_READ_ERROR"})

\* C19 amended: the same, with PERMISSION_ERROR when the stat of an existing
\* path fails.
C19_ErrorTypesWithPermission ==
  /\ pc # "thrown"
  /\ ProcessOutcomeIs({"VALIDATION_ERROR", "FILE_NOT_FOUND", "FILE_TOO_LARGE",
                       "PARSE_ERROR", "FILE_READ_ERROR", "PERMISSION_ERROR"})
  /\ (pc = "returned" /\ gen.arg.kind = "path" /\ gen.file.kind = "statFails") =>
       ~out.success /\ out.errorType = "PERMISSION_ERROR"

\* a file of exactly the size limit was processed, and one above it refused
C19_Witness ==
  /\ pc = "returned"
  /\ gen.arg.kind = "path"
  /\ gen.file.kind = "regular"
  /\ gen.file.size = MAX_FILE_SIZE
  /\ gen.file.readable
  /\ out.success
  /\ out.info.functions # <<>>

\* C20: a failing file does not end the loop: the files analyzed so far are
\* always the first files of the list, each once and in order; the loop
\* reaches its end unless there is nothing to process; and at its end every
\* file, also those after a failing one, was analyzed and processed + failed
\* is the number of files.
C20_BatchRunsThrough ==
  /\ [](pc \in {"loop", "generate"} =>
         /\ out.analyzed = SubSeq(gen.filesToProcess, 1, cursor)
         /\ \A i, j \in 1..Len(gen.filesToProcess) :
              gen.filesToProcess[i] = gen.filesToProcess[j] => i = j
         /\ out.processed + out.failed = cursor)
  /\ [](pc = "generate" =>
         /\ out.analyzed = gen.filesToProcess
         /\ out.processed + out.failed = Len(gen.filesToProcess))
  /\ (Len(gen.filesToProcess) > 0) ~> (pc = "generate")

\* the loop ended after a failing first file and two files analyzed after it
C20_Witness ==
  /\ pc = "generate"
  /\ gen.op = "batch"
  /\ Len(gen.filesToProcess) = 3
  /\ ~gen.results[gen.filesToProcess[1]].success
  /\ gen.results[gen.filesToProcess[2]].success
  /\ gen.results[gen.filesToProcess[2]].info.isPureType
  /\ out.failed = 1
  /\ out.processed = 2

\* C21: after a --files run every input file has its own index, whose content
\* is the index of that file alone: none was overwritten by another's.
C21_EachFileHasOwnIndex ==
  (gen.op = "write" /\ pc = "written") =>
    \A k \in 1..Len(gen.files) :
      LET filePath == gen.files[k]
          own == mapPath(PathDirname(filePath), PathRelative(sProjectDir, filePath))
      IN /\ MapHas(out.files, own)
         /\ MapGet(out.files, own) = FileIndex(filePath, gen.infos[filePath])

\* C22: scanDirectory returns on every directory structure, also one where
\* a directory is reachable from itself; it reads the entries of each real
\* directory at most once and of none deeper than MAX_DIR_DEPTH levels.
C22_ScanTerminatesBounded ==
  /\ <>(pc = "scanned")
  /\ [](\A i, j \in 1..Len(out.readdirs) :
           out.readdirs[i].real = out.readdirs[j].real => i = j)
  /\ [](\A i \in 1..Len(out.readdirs) : out.readdirs[i].depth <= MAX_DIR_DEPTH)

\* a scan returned after it met a directory again, and one after it reached
\* the depth limit with a directory left unread below it
C22_Witness ==
  /\ pc = "scanned"
  /\ \/ /\ Len(gen.dirs[1]) > 4
        /\ gen.dirs[1][1].real = 1
        /\ Len(out.readdirs) >= 2
     \/ /\ DOMAIN gen.dirs = 1..DeepDirs
        /\ \E i \in 1..Len(out.readdirs) : out.readdirs[i].depth = MAX_DIR_DEPTH
        /\ Len(out.readdirs) = MAX_DIR_DEPTH + 1

-----------------------------------------------------------------------------
(* Properties of the declaration records *)

\* the text the signature rule gives for parameter p
ParamText(tree, p) ==
  LET inner == IF tree[p].type = "AssignmentPattern" THEN Child(tree, p, "left")
               ELSE IF tree[p].type = "RestElement" THEN Child(tree, p, "argument")
               ELSE p
  IN IF TypeOf(tree, inner) # "Identifier" THEN sQuestion
     ELSE IF tree[p].type = "AssignmentPattern" THEN tree[inner].name \o sQuestion
     ELSE IF tree[p].type = "RestElement" THEN sEllipsis \o tree[inner].name
     ELSE tree[inner].name

SignatureText(tree, fn) ==
  LET ps == Children(tree, fn, "params")
  IN JoinComma([k \in 1..Len(ps) |-> ParamText(tree, ps[k])])

CallableTypes ==
  {"FunctionDeclaration", "FunctionExpression", "ArrowFunctionExpression", "ObjectMethod"}

\* the callable a function record was made from: the first one at or after its line
CallableAt(tree, line) ==
  CHOOSE j \in line..Len(tree) :
    /\ tree[j].type \in CallableTypes
    /\ \A x \in line..(j - 1) : tree[x].type \notin CallableTypes

\* C23: the params of every function record and of every method record follow
\* the signature rule (name, name?, ...name, ?), joined by commas in order
C23_SignatureRule ==
  /\ \A k \in 1..Len(info.functions) :
       info.functions[k].params =
         SignatureText(ast, CallableAt(ast, info.functions[k].startLine))
  /\ \A c \in 1..Len(info.classes) : \A m \in 1..Len(info.classes[c].methods) :
       info.classes[c].methods[m].params =
         SignatureText(ast, info.classes[c].methods[m].line)

\* the part of C23 about function records alone
FunctionSignaturesFollowRule ==
  \A k \in 1..Len(info.functions) :
    info.functions[k].params =
      SignatureText(ast, CallableAt(ast, info.functions[k].startLine))


\* a simple name or a dotted expression a.b.c of any depth
RECURSIVE IsDottedName(_, _)
IsDottedName(tree, e) ==
  IF e = 0 THEN FALSE
  ELSE IF tree[e].type = "Identifier" THEN TRUE
  ELSE /\ tree[e].type = "MemberExpression"
       /\ TypeOf(tree, Child(tree, e, "property")) = "Identifier"
       /\ IsDottedName(tree, Child(tree, e, "object"))

\* its leftmost identifier
RECURSIVE RootName(_, _)
RootName(tree, e) ==
  IF tree[e].type = "Identifier" THEN tree[e].name
  ELSE RootName(tree, Child(tree, e, "object"))

ClassTypes == {"ClassDeclaration", "ClassExpression"}

\* the class a class record was made from: the first one at or after its line
ClassAt(tree, line) ==
  CHOOSE j \in line..Len(tree) :
    /\ tree[j].type \in ClassTypes
    /\ \A x \in line..(j - 1) : tree[x].type \notin ClassTypes

\* C24: for every class form, a superclass that is a simple name or a dotted
\* expression of any depth is recorded as its root identifier
C24_SuperClassIsRoot ==
  \A c \in 1..Len(info.classes) :
    LET sc == Child(ast, ClassAt(ast, info.classes[c].startLine), "superClass")
    IN IsDottedName(ast, sc) => info.classes[c].superClass = RootName(ast, sc)

\* the same for superclasses of depth at most one in forms other than a
\* default-exported class expression
ShallowSuperClassIsRoot ==
  \A c \in 1..Len(info.classes) :
    LET cls == ClassAt(ast, info.classes[c].startLine)
        sc == Child(ast, cls, "superClass")
    IN /\ IsDottedName(ast, sc)
       /\ TypeOf(ast, Child(ast, sc, "object")) \in {"Program", "Identifier"}
       /\ ~(ast[cls].type = "ClassExpression"
            /\ TypeOf(ast, ParentOf(ast, cls)) = "ExportDefaultDeclaration")
       => info.classes[c].superClass = RootName(ast, sc)


\* e is a call of require
IsLoadingCall(tree, e) ==
  /\ TypeOf(tree, e) = "CallExpression"
  /\ IdentName(tree, Child(tree, e, "callee")) = sRequire

\* declarator d binds an identifier in a const declaration at program top level
\* or directly inside a named export, to something other than a function, an
\* arrow, a class or a loading call
IsConstantBinding(tree, d) ==
  LET v == ParentOf(tree, d)
      init == Child(tree, d, "init")
  IN /\ tree[d].type = "VariableDeclarator"
     /\ TypeOf(tree, v) = "VariableDeclaration"
     /\ tree[v].kind = "const"
     /\ TypeOf(tree, ParentOf(tree, v)) \in {"Program", "ExportNamedDeclaration"}
     /\ TypeOf(tree, Child(tree, d, "id")) = "Identifier"
     /\ TypeOf(tree, init) \notin
          {"FunctionExpression", "ArrowFunctionExpression", "ClassExpression"}
     /\ ~IsLoadingCall(tree, init)

\* declarator d binds an alias of a loaded module: require('m') or require('m').x
BindsLoadedAlias(tree, d) ==
  LET init == Child(tree, d, "init")
  IN \/ IsLoadingCall(tree, init)
     \/ /\ TypeOf(tree, init) = "MemberExpression"
        /\ IsLoadingCall(tree, Child(tree, init, "object"))

ConstantsRecorded ==
  { <<info.constants[k].name, info.constants[k].line>> : k \in 1..Len(info.constants) }

ConstantBindings(tree, aliasesToo) ==
  { <<tree[Child(tree, d, "id")].name, tree[ParentOf(tree, d)].line>> :
      d \in {x \in 1..Len(tree) :
               IsConstantBinding(tree, x) /\ (aliasesToo \/ ~BindsLoadedAlias(tree, x))} }

\* C27: constants holds exactly the top-level or directly exported const
\* bindings of identifiers whose initializer is no function, arrow, class or
\* loading call, and never an alias obtained from a loading call
C27_ConstantsExact ==
  pc = "done" => ConstantsRecorded = ConstantBindings(ast, FALSE)

\* the same with the aliases bound to a member of a loading call counted in
ConstantsIncludeMemberAliases ==
  pc = "done" => ConstantsRecorded = ConstantBindings(ast, TRUE)


-----------------------------------------------------------------------------
(* Properties of the import entries *)

\* node j is a recognized import or require of a module
IsLoadSite(tree, j) ==
  \/ tree[j].type = "ImportDeclaration"
  \/ tree[j].type = "VariableDeclarator" /\ IsRequireCall(tree, Child(tree, j, "init"))
  \/ /\ IsRequireCall(tree, j)
     /\ TypeOf(tree, ParentOf(tree, j)) = "MemberExpression"
     /\ TypeOf(tree, Child(tree, ParentOf(tree, j), "property")) = "Identifier"

LoadSites(tree) ==
  LET S == {j \in 1..Len(tree) : IsLoadSite(tree, j)}
  IN [k \in 1..Cardinality(S) |-> NthOf(S, k)]

SiteModule(tree, j) ==
  IF tree[j].type = "ImportDeclaration" THEN tree[Child(tree, j, "source")].value
  ELSE IF tree[j].type = "VariableDeclarator" THEN RequireModule(tree, Child(tree, j, "init"))
  ELSE RequireModule(tree, j)

\* the pairs <<member, alias>> site j brings in; NoName where it binds no alias
SitePairs(tree, j) ==
  LET id == Child(tree, j, "id")
      specs == Children(tree, j, "specifiers")
      props == Children(tree, id, "properties")
      declarator == ParentOf(tree, ParentOf(tree, j))
  IN IF tree[j].type = "ImportDeclaration"
     THEN [k \in 1..Len(specs) |->
             <<IF tree[specs[k]].type = "ImportDefaultSpecifier" THEN sImportDefault
               ELSE IF tree[specs[k]].type = "ImportNamespaceSpecifier" THEN sStar
               ELSE tree[Child(tree, specs[k], "imported")].name,
               tree[Child(tree, specs[k], "local")].name>>]
     ELSE IF tree[j].type = "VariableDeclarator"
     THEN IF tree[id].type = "Identifier" THEN << <<tree[id].name, tree[id].name>> >>
          ELSE [k \in 1..Len(props) |->
                  <<tree[Child(tree, props[k], "key")].name,
                    tree[Child(tree, props[k], "value")].name>>]
     ELSE << <<tree[Child(tree, ParentOf(tree, j), "property")].name,
               IF TypeOf(tree, declarator) = "VariableDeclarator"
               THEN IdentName(tree, Child(tree, declarator, "id")) ELSE NoName>> >>

\* a sequence without its repetitions, in first-seen order
RECURSIVE Distinct(_)
Distinct(q) ==
  IF q = <<>> THEN <<>>
  ELSE LET r == Distinct(SubSeq(q, 1, Len(q) - 1))
       IN IF InSeq(q[Len(q)], r) THEN r ELSE Append(r, q[Len(q)])

\* the members brought in for module m by the sites from the k-th on
RECURSIVE MembersFrom(_, _, _, _)
MembersFrom(tree, sites, k, m) ==
  IF k > Len(sites) THEN <<>>
  ELSE (IF SiteModule(tree, sites[k]) = m
        THEN LET ps == SitePairs(tree, sites[k]) IN [x \in 1..Len(ps) |-> ps[x][1]]
        ELSE <<>>) \o MembersFrom(tree, sites, k + 1, m)

\* the sites that bind alias a
BindingSites(tree, a) ==
  {j \in 1..Len(tree) :
     IsLoadSite(tree, j) /\ \E x \in 1..Len(SitePairs(tree, j)) : SitePairs(tree, j)[x][2] = a}

AliasesBound(tree) ==
  {a \in {tree[j].name : j \in 1..Len(tree)} : a # NoName /\ BindingSites(tree, a) # {}}

\* the module of the last binding of alias a
LastModule(tree, a) ==
  SiteModule(tree, CHOOSE j \in BindingSites(tree, a) : \A x \in BindingSites(tree, a) : x <= j)

\* C25: one entry per module in first-seen order, members the de-duplicated
\* union in first-seen order, and an alias bound several times belongs to the
\* module of its last binding only, which alone receives its usages
C25_ImportsMergedLastBindingWins ==
  pc \in {"calls", "exports", "done"} =>
    LET sites == LoadSites(ast)
    IN /\ [k \in 1..Len(info.imports) |-> info.imports[k].module] =
            Distinct([k \in 1..Len(sites) |-> SiteModule(ast, sites[k])])
       /\ \A k \in 1..Len(info.imports) :
            /\ info.imports[k].members =
                 Distinct(MembersFrom(ast, sites, 1, info.imports[k].module))
            /\ SeqSet(info.imports[k].usedIn) =
                 UNION { SeqSet(MapGet(usageMap, a)) :
                           a \in {b \in AliasesBound(ast) :
                                    LastModule(ast, b) = info.imports[k].module} }
       /\ \A a \in AliasesBound(ast) : MapGet(localToModule, a) = LastModule(ast, a)

\* an alias bound to two modules in turn and used in a callable
C25_Witness ==
  /\ pc = "done"
  /\ Len(info.imports) = 2
  /\ info.imports[1].usedIn = <<>>
  /\ info.imports[2].usedIn # <<>>
  /\ \E a \in AliasesBound(ast) :
       /\ \E j \in BindingSites(ast, a) : SiteModule(ast, j) # LastModule(ast, a)
       /\ MapGet(usageMap, a) # <<>>


\* identifier j is the id of a variable declarator
IsDeclaratorId(tree, j) ==
  /\ TypeOf(tree, ParentOf(tree, j)) = "VariableDeclarator"
  /\ Child(tree, ParentOf(tree, j), "id") = j

\* identifier j lies in the destructuring pattern of a variable declarator
IsInPattern(tree, j) ==
  LET prop == ParentOf(tree, j)
      pattern == ParentOf(tree, prop)
  IN /\ TypeOf(tree, prop) = "ObjectProperty"
     /\ TypeOf(tree, pattern) = "ObjectPattern"
     /\ IsDeclaratorId(tree, pattern)

IsInSpecifier(tree, j) ==
  TypeOf(tree, ParentOf(tree, j)) \in
    {"ImportSpecifier", "ImportDefaultSpecifier", "ImportNamespaceSpecifier"}

\* the callables that hold an occurrence of an alias of module m outside the
\* alias's binding sites; patternsBind tells whether a pattern is one
UsersOf(tree, m, patternsBind) ==
  { getEnclosingFunctionName(tree, j) :
      j \in {x \in 1..Len(tree) :
               /\ tree[x].type = "Identifier"
               /\ tree[x].name \in AliasesBound(tree)
               /\ LastModule(tree, tree[x].name) = m
               /\ ~IsDeclaratorId(tree, x)
               /\ ~IsInSpecifier(tree, x)
               /\ ~(patternsBind /\ IsInPattern(tree, x))} } \ {NoName}

\* C28: usedIn of an import entry is exactly the set of enclosing callables of
\* the occurrences of the module's aliases that are not binding sites
\* (declarator id, destructuring pattern, import specifier)
C28_UsedInExact ==
  pc = "done" =>
    \A k \in 1..Len(info.imports) :
      SeqSet(info.imports[k].usedIn) = UsersOf(ast, info.imports[k].module, TRUE)

\* the same when an occurrence inside a destructuring pattern counts as a use
UsedInCountsPatternSites ==
  pc = "done" =>
    \A k \in 1..Len(info.imports) :
      SeqSet(info.imports[k].usedIn) = UsersOf(ast, info.imports[k].module, FALSE)


ModuleFields == {"imports", "functions", "classes", "constants", "callGraph"}

\* C14: a rejected input gives a failure with a non-empty message, errorType
\* PARSE_ERROR and the parser's line/column when supplied, and no field of a
\* Module; a returned Module carries no parseError.
C14_FailureIsNotPartial ==
  /\ (pc = "failed" /\ gen.code.kind = "rejected") =>
       /\ out.parseError # <<>>
       /\ out.parseError[1] # <<>>
       /\ out.errorType = "PARSE_ERROR"
       /\ out.loc = gen.code.error.loc
       /\ gen.code.error.loc # NoLoc =>
            \E k \in 1..Len(out.parseError) :
              out.parseError[k] = <<"Location: Line ", gen.code.error.loc.line,
                                    ", Column ", gen.code.error.loc.column>>
       /\ DOMAIN out \cap ModuleFields = {}
       /\ info = EmptyInfo
  /\ pc = "done" => "parseError" \notin DOMAIN info

\* the parser rejected the input and supplied a position
C14_Witness ==
  /\ pc = "failed"
  /\ gen.code.kind = "rejected"
  /\ gen.code.error.loc = [line |-> 2, column |-> 15]
  /\ out.errorType = "PARSE_ERROR"

====
